---------------------------- MODULE Spec2Model ----------------------------
(***************************************************************************)
(* Streaming segmentation and transcript-acceptance pipeline of the        *)
(* dispatch transcriber: the AudioRecorder producer thread (src/audio.py), *)
(* the transcript heuristics and the escalation protocol                   *)
(* (src/transcribe.py) and the consumer loop (src/main.py).                *)
(*                                                                         *)
(* The module holds several specifications over one set of variables:      *)
(*   SpecSeg   the producer thread reading frames from the stream          *)
(*   SpecNames the same, with the wall clock of the file names advancing   *)
(*   SpecLookback  the same as SpecSeg, a look-back of 0 ms included       *)
(*   SpecHall  is_hallucination applied to transcripts                     *)
(*   SpecGate  transcribe_full_segment applied to one Utterance            *)
(*   SpecPasses  the same, on Utterances of more chunks and short texts    *)
(*   SpecOrder  the same, on texts that trip several heuristics at once    *)
(*   SpecChunk  transcribe_chunk building one request                      *)
(*   SpecWatch  the watchdog thread restarting the capture pipeline        *)
(*   SpecDeliver  the consumer loop from the returned transcript onwards    *)
(*   SpecNotify  the alert branch of the consumer loop and send_pushover   *)
(*   SpecRestart  one poll of the watchdog, its restart, and the interrupt *)
(*   SpecStop  producer thread and consumer loop stopped by Ctrl-C         *)
(*   SpecMain  the consumer loop of main() fed by the producer's queue     *)
(*   SpecSpeed smells_too_long applied to transcripts and durations        *)
(*   SpecEcho  contains_prompt_snippet applied to transcripts and hints    *)
(* Each specification leaves the variables of the others unchanged.        *)
(***************************************************************************)
EXTENDS Integers, Sequences, FiniteSets, TLC

(***************************************************************************)
(* Bounds of the model.                                                    *)
(***************************************************************************)
\* Number of full frames the stream delivers in one behaviour.
MaxFrames == 5
\* Wall-clock seconds that pass in one behaviour (datetime.now(), 1 s steps).
MaxClock == 1
\* Words of the repeated vocabulary and distinct filler words in a transcript
\* handed to is_hallucination.
MaxLetters == 6
MaxFiller == 24
\* Times the four-word phrase is repeated in a transcript made of it alone.
MaxPhraseRepeats == 10
\* Words of the transcripts smells_too_long is applied to.
MaxSpeedWords == 26
\* Longest run of a hint's characters a transcript is cut from.
MaxEchoRun == 28
\* Chunks split_on_silence finds in one Utterance.
MaxChunks == 1
\* Chunks of one Utterance when the remote texts are the short ones.
MaxPassChunks == 2
\* Utterances the producer enqueues in one behaviour of the consumer loop.
MaxUtterances == 3
\* Capture-process+producer pairs started in one behaviour of the watchdog.
MaxPairs == 2
\* Seconds of monotonic time in one behaviour of the watchdog.
MaxWatchTime == 11
\* Utterances the consumer loop receives a transcript for in one behaviour.
MaxItems == 2
\* Calls of send_pushover in one behaviour, and the seconds they span.
MaxCalls == 3
MaxNotifyTime == 900

(***************************************************************************)
(* Configuration (src/config.py) and AudioRecorder.__init__.               *)
(***************************************************************************)
SAMPLE_RATE == 16000
CHANNELS == 1
chunk_size == 1024
sample_width == 2
bytes_per_chunk == chunk_size * CHANNELS * sample_width

\* THRESHOLD_DB is read from the environment (default -50).
ThresholdDbChoices == {-50, 20}
\* LOOKBACK_MS is read from the environment (default 1000, 16 frames); the
\* model takes look-back windows of one and two frames.
LookbackMsChoices == {50, 100}

\* math.ceil of a quotient of naturals.
CeilDiv(a, b) == IF a % b = 0 THEN a \div b ELSE (a \div b) + 1

\* int(math.ceil((lookback_ms / 1000.0) * (sample_rate / self.chunk_size)))
silence_buffer_chunks_of(lb_ms) == CeilDiv(lb_ms * SAMPLE_RATE, 1000 * chunk_size)

\* rms values audioop.rms returns for the frames of the model's streams.
RmsValues == {0, 10, 100}

\* 20 * math.log10(rms) for rms > 0 (exact for the powers of ten).
Log10x20(rms) ==
  CASE rms = 1 -> 0
    [] rms = 10 -> 20
    [] rms = 100 -> 40
    [] rms = 1000 -> 60

\* db = 20 * math.log10(rms) if rms > 0 else -float("inf"); db > threshold_db
AboveThresholdGe(rms, th) == IF rms > 0 THEN Log10x20(rms) >= th ELSE FALSE

AboveThreshold(rms, th) == IF rms > 0 THEN Log10x20(rms) > th ELSE FALSE

\* A frame read from the stream: its rms, and (a history value) its position
\* in the stream, 1-based.  Position 0 marks a silence placeholder.
Frame(p, r) == [pos |-> p, rms |-> r]

\* silent_frame = b"\x00" * self.bytes_per_chunk
silent_frame == Frame(0, 0)

\* for _ in range(self.silence_buffer_chunks): lookback_buffer.append(silent_frame)
PrefilledLookback(n) == [i \in 1..n |-> silent_frame]

\* if not recording: active_buffer.extend(lookback_buffer)
FlushLookbackDropped(active, lookback, rec) == active

FlushLookback(active, lookback, rec) ==
  IF rec THEN active ELSE active \o lookback

\* silence_count = 0 on a frame above the threshold
SilenceCountAfterSpeechKept(sc) == sc

SilenceCountAfterSpeech(sc) == 0

\* if silence_count >= self.silence_buffer_chunks: return active_buffer
SegmentCompleteEarly(sc, n) == sc + 1 >= n

SegmentComplete(sc, n) == sc >= n

(***************************************************************************)
(* Text: a Python str is a sequence of characters (one-character strings). *)
(***************************************************************************)
\* The characters str.split() and the regex class \s treat as whitespace.
Whitespace == {" ", "\t", "\n", "\r"}

\* str.split(): the maximal runs of non-whitespace characters, in order.
Split(t) ==
  LET starts == {i \in 1..Len(t) : t[i] \notin Whitespace /\ (i = 1 \/ t[i - 1] \in Whitespace)}
      ends == {i \in 1..Len(t) : t[i] \notin Whitespace /\ (i = Len(t) \/ t[i + 1] \in Whitespace)}
      Nth(S, k) == CHOOSE x \in S : Cardinality({y \in S : y < x}) = k - 1
  IN [k \in 1..Cardinality(starts) |-> SubSeq(t, Nth(starts, k), Nth(ends, k))]

\* sep.join(parts)
RECURSIVE Join(_, _)
Join(parts, sep) ==
  IF parts = <<>> THEN <<>>
  ELSE IF Len(parts) = 1 THEN parts[1]
  ELSE parts[1] \o sep \o Join(Tail(parts), sep)

\* str.strip(): leading and trailing whitespace removed.
Strip(t) ==
  LET kept == {i \in 1..Len(t) : t[i] \notin Whitespace}
  IN IF kept = {} THEN <<>>
     ELSE SubSeq(t, CHOOSE i \in kept : \A j \in kept : i <= j,
                    CHOOSE i \in kept : \A j \in kept : i >= j)

(***************************************************************************)
(* Repeated-phrase heuristic (src/transcribe.py, lines 38-56).             *)
(***************************************************************************)
min_phrase_len == 3
max_phrase_len == 6
min_repeats == 3
\* threshold: float = 0.4, as the fraction HallThresholdNum / HallThresholdDen
HallThresholdNum == 4
HallThresholdDen == 10

\* count >= min_repeats
RepeatsEnoughTwice(count, least) == count >= least - 1

RepeatsEnough(count, least) == count >= least

\* word_count / total_words >= threshold (the quotient of two ints is the
\* double nearest to the exact quotient, and 0.4 is the double nearest to
\* 4/10, so the comparison is the exact one).
CoverageReachedStrict(word_count, total_words) ==
  word_count * HallThresholdDen > HallThresholdNum * total_words

CoverageReachedBelow(word_count, total_words) ==
  word_count * HallThresholdDen <= HallThresholdNum * total_words

CoverageReached(word_count, total_words) ==
  word_count * HallThresholdDen >= HallThresholdNum * total_words

\* phrase_counts restricted to the phrases counted at least min_repeats times:
\* a function from phrase (the " "-joined words) to its count.  Words hold
\* no whitespace, so a phrase is the key of the n-grams of one n only, and
\* its count is the number of positions where those n words occur.
detect_repeated_phrases(text) ==
  LET words == Split(text)
      positions == {<<n, i>> \in (min_phrase_len..max_phrase_len) \X (1..Len(words)) :
                      i <= Len(words) - n + 1}
      SameAt(n, i, j) == \A k \in 0..(n - 1) : words[i + k] = words[j + k]
      Count(n, i) == Cardinality({j \in 1..(Len(words) - n + 1) : SameAt(n, i, j)})
      kept == {p \in positions : RepeatsEnough(Count(p[1], p[2]), min_repeats)}
      Phrase(p) == Join(SubSeq(words, p[2], p[2] + p[1] - 1), <<" ">>)
  IN [phrase \in {Phrase(p) : p \in kept} |->
        LET p == CHOOSE q \in kept : Phrase(q) = phrase IN Count(p[1], p[2])]

is_hallucination(text) ==
  LET words == Split(text)
      total_words == Len(words)
      repeats == detect_repeated_phrases(text)
  IN \E phrase \in DOMAIN repeats :
        CoverageReached(Len(Split(phrase)) * repeats[phrase], total_words)

(***************************************************************************)
(* Speed heuristic (src/transcribe.py, lines 59-64).  Durations are in     *)
(* milliseconds.                                                           *)
(***************************************************************************)
\* wps_threshold: float = 5.5, in tenths of a word per second
wps_threshold_x10 == 55
min_words == 20
\* max(audio_duration_sec, 0.1), in milliseconds
min_duration_ms == 100

MaxInt(a, b) == IF a >= b THEN a ELSE b

\* words_per_second > wps_threshold
TooFastInclusive(word_count, ms) ==
  word_count * 1000 * 10 >= wps_threshold_x10 * MaxInt(ms, min_duration_ms)

TooFast(word_count, ms) ==
  word_count * 1000 * 10 > wps_threshold_x10 * MaxInt(ms, min_duration_ms)

smells_too_long(text, audio_duration_ms) ==
  LET word_count == Len(Split(text))
  IN IF word_count < min_words THEN FALSE ELSE TooFast(word_count, audio_duration_ms)

(***************************************************************************)
(* Prompt-echo heuristic (src/transcribe.py, lines 67-87).                 *)
(***************************************************************************)
char_threshold == 24

\* str.lower() on the letters of the model's texts.
LowerOf ==
  "A" :> "a" @@ "B" :> "b" @@ "C" :> "c" @@ "D" :> "d" @@ "E" :> "e" @@ "F" :> "f" @@
  "G" :> "g" @@ "H" :> "h" @@ "I" :> "i" @@ "J" :> "j" @@ "K" :> "k" @@ "L" :> "l" @@
  "M" :> "m" @@ "N" :> "n" @@ "O" :> "o" @@ "P" :> "p" @@ "Q" :> "q" @@ "R" :> "r" @@
  "S" :> "s" @@ "T" :> "t" @@ "U" :> "u" @@ "V" :> "v" @@ "W" :> "w" @@ "X" :> "x" @@
  "Y" :> "y" @@ "Z" :> "z"

Lower(t) == [i \in 1..Len(t) |-> IF t[i] \in DOMAIN LowerOf THEN LowerOf[t[i]] ELSE t[i]]

\* re.sub(r"[\s]+", " ", text): every run of whitespace becomes one space.
CollapseWhitespace(t) ==
  LET marked == [i \in 1..Len(t) |->
                   IF t[i] \notin Whitespace THEN t[i]
                   ELSE IF i > 1 /\ t[i - 1] \in Whitespace THEN "" ELSE " "]
      Kept(c) == c # ""
  IN SelectSeq(marked, Kept)

\* re.sub(r"[\.,;:!?\-\(\)\[\]{}'\"]", "", text)
Punctuation == {".", ",", ";", ":", "!", "?", "-", "(", ")", "[", "]", "{", "}", "'", "\""}

RemovePunctuation(t) ==
  LET Kept(c) == c \notin Punctuation
  IN SelectSeq(t, Kept)

normalize_text(text) == Strip(RemovePunctuation(CollapseWhitespace(Lower(text))))

\* The substrings of length k of t.
SubstringsOf(t, k) == {SubSeq(t, i, i + k - 1) : i \in 1..(Len(t) - k + 1)}

\* range(len(norm_prompt) - char_threshold + 1), as 1-based positions
SnippetStartsShort(prompt_len, k) == 1..(prompt_len - k)

SnippetStarts(prompt_len, k) == 1..(prompt_len - k + 1)

contains_prompt_snippet(text, prompt_text) ==
  LET norm_text == normalize_text(text)
      norm_prompt == normalize_text(prompt_text)
      in_text == SubstringsOf(norm_text, char_threshold)
  IN IF Len(norm_prompt) < char_threshold \/ Len(norm_text) < char_threshold
       THEN FALSE
       ELSE \E i \in SnippetStarts(Len(norm_prompt), char_threshold) :
               SubSeq(norm_prompt, i, i + char_threshold - 1) \in in_text

(***************************************************************************)
(* Priming hints: the contents of prompt.txt, promptshort.txt and          *)
(* promptbasic.txt (configuration, not part of the repository).            *)
(***************************************************************************)
\* "Lakewood dispatch - units, copy traffic"
DISPATCH_PROMPT ==
  <<"L", "a", "k", "e", "w", "o", "o", "d", " ", "d", "i", "s", "p", "a",
    "t", "c", "h", " ", "-", " ", "u", "n", "i", "t", "s", ",", " ", "c",
    "o", "p", "y", " ", "t", "r", "a", "f", "f", "i", "c">>

\* "Engine 5, Medic 2: respond."
SHORT_PROMPT ==
  <<"E", "n", "g", "i", "n", "e", " ", "5", ",", " ", "M", "e", "d", "i",
    "c", " ", "2", ":", " ", "r", "e", "s", "p", "o", "n", "d", ".">>

\* "Fire and EMS radio traffic, Lakewood."
BASIC_PROMPT ==
  <<"F", "i", "r", "e", " ", "a", "n", "d", " ", "E", "M", "S", " ", "r",
    "a", "d", "i", "o", " ", "t", "r", "a", "f", "f", "i", "c", ",", " ",
    "L", "a", "k", "e", "w", "o", "o", "d", ".">>

\* contains_prompt_snippet against DISPATCH_PROMPT, SHORT_PROMPT, BASIC_PROMPT
EchoesAPrompt(text) ==
  \/ contains_prompt_snippet(text, DISPATCH_PROMPT)
  \/ contains_prompt_snippet(text, SHORT_PROMPT)
  \/ contains_prompt_snippet(text, BASIC_PROMPT)

(***************************************************************************)
(* Texts the remote transcription capability returns in the model.         *)
(***************************************************************************)
\* "Engine 5 on scene\n": trips no heuristic.
TextPlain ==
  <<"E", "n", "g", "i", "n", "e", " ", "5", " ", "o", "n", " ", "s", "c",
    "e", "n", "e", "\n">>

\* "copy copy copy copy copy": a 3-gram occurring 3 times.
TextRepeated ==
  <<"c", "o", "p", "y", " ", "c", "o", "p", "y", " ", "c", "o", "p", "y",
    " ", "c", "o", "p", "y", " ", "c", "o", "p", "y">>

\* "Engine 5, Medic 2 respond": 24 normalized characters of SHORT_PROMPT.
TextEcho ==
  <<"E", "n", "g", "i", "n", "e", " ", "5", ",", " ", "M", "e", "d", "i",
    "c", " ", "2", " ", "r", "e", "s", "p", "o", "n", "d">>

\* Twenty distinct words: too fast for any audio shorter than 3.64 s.
TextTwentyWords ==
  <<"w", "0", "0", " ", "w", "0", "1", " ", "w", "0", "2", " ", "w", "0",
    "3", " ", "w", "0", "4", " ", "w", "0", "5", " ", "w", "0", "6", " ",
    "w", "0", "7", " ", "w", "0", "8", " ", "w", "0", "9", " ", "w", "1",
    "0", " ", "w", "1", "1", " ", "w", "1", "2", " ", "w", "1", "3", " ",
    "w", "1", "4", " ", "w", "1", "5", " ", "w", "1", "6", " ", "w", "1",
    "7", " ", "w", "1", "8", " ", "w", "1", "9">>

\* " \n": empty once stripped.
TextBlank ==
  <<" ", "\n">>

RemoteTexts == {TextPlain, TextRepeated, TextEcho, TextTwentyWords, TextBlank}

(***************************************************************************)
(* Transcription gateway and escalation (src/transcribe.py, lines 90-310). *)
(* Durations are in milliseconds.                                          *)
(***************************************************************************)
PRIMARY_MODEL == "whisper-1"
ALTERNATE_MODEL == "gpt-4o-mini-transcribe"

\* retry_on_exception(exceptions=(OpenAIError,), max_attempts=3,
\*                    initial_delay=1, backoff_factor=2)
max_attempts == 3
initial_delay == 1
backoff_factor == 2

\* if duration < 0.25: skip the chunk (primary pass)
min_chunk_ms == 250
\* duration < 2.0 selects the short hint
short_hint_ms == 2000
\* final_duration < 1.0: a flagged short clip is dropped
short_clip_ms == 1000

\* prompt_to_use of transcribe_chunk, by name; "none" when use_prompt is False.
PromptToUseInclusive(model, use_prompt, duration) ==
  IF ~use_prompt THEN "none"
  ELSE IF model = ALTERNATE_MODEL
    THEN (IF duration <= short_hint_ms THEN "short" ELSE "basic")
    ELSE (IF duration <= short_hint_ms THEN "short" ELSE "dispatch")

PromptToUse(model, use_prompt, duration) ==
  IF ~use_prompt THEN "none"
  ELSE IF model = ALTERNATE_MODEL
    THEN (IF duration < short_hint_ms THEN "short" ELSE "basic")
    ELSE (IF duration < short_hint_ms THEN "short" ELSE "dispatch")

PromptText(name) ==
  CASE name = "short" -> SHORT_PROMPT
    [] name = "basic" -> BASIC_PROMPT
    [] name = "dispatch" -> DISPATCH_PROMPT
    [] name = "none" -> <<>>

\* if prompt_to_use: kwargs["prompt"] = prompt_to_use
PromptSent(model, use_prompt, duration) ==
  LET name == PromptToUse(model, use_prompt, duration)
  IN IF PromptText(name) # <<>> THEN name ELSE "none"

\* The passes of the quality gate over one Utterance.
GatePasses == {"primary", "alt_hint", "alt_nohint"}

ModelOfPass(pass) == IF pass = "primary" THEN PRIMARY_MODEL ELSE ALTERNATE_MODEL

UsePromptOfPass(pass) == pass # "alt_nohint"

\* The pass an escalation or a retry starts: transcribe_full_segment calls
\* reprocess_with_alternate_model, whose first _alt_transcribe uses the hint
\* and whose second does not.
NextPassRepeatsHint(pass) == "alt_hint"

NextPass(pass) == IF pass = "primary" THEN "alt_hint" ELSE "alt_nohint"

\* The three heuristics evaluated on the transcript of a pass.
FlagsOf(text, duration) ==
  [ran |-> TRUE,
   speed |-> smells_too_long(text, duration),
   rep |-> is_hallucination(text),
   echo |-> EchoesAPrompt(text),
   empty |-> text = <<>>]

NotRun == [ran |-> FALSE, speed |-> FALSE, rep |-> FALSE, echo |-> FALSE, empty |-> TRUE]

\* transcribe_full_segment, lines 269-310: what the primary transcript leads
\* to, given the heuristics' results f on it.
PrimaryDecisionEchoFirst(f, duration) ==
  IF f.echo
    THEN (IF duration < short_clip_ms THEN "discard" ELSE "escalate")
    ELSE IF f.speed \/ f.rep THEN "escalate" ELSE "accept"

PrimaryDecisionEscalatesEmpty(f, duration) ==
  IF f.speed \/ f.rep \/ f.empty THEN "escalate"
  ELSE IF f.echo
    THEN (IF duration < short_clip_ms THEN "discard" ELSE "escalate")
    ELSE "accept"

PrimaryDecisionNoRepeatCheck(f, duration) ==
  IF f.speed THEN "escalate"
  ELSE IF f.echo
    THEN (IF duration < short_clip_ms THEN "discard" ELSE "escalate")
    ELSE "accept"

PrimaryDecision(f, duration) ==
  IF f.speed THEN "escalate"
  ELSE IF f.rep THEN "escalate"
  ELSE IF f.echo
    THEN (IF duration < short_clip_ms THEN "discard" ELSE "escalate")
    ELSE "accept"

\* reprocess_with_alternate_model, lines 176-198 and, for a transcript that
\* is not flagged, lines 202-215.
AltHintDecisionAlwaysRetries(f, duration) ==
  IF f.speed \/ f.rep \/ f.echo THEN "retry" ELSE "accept"

AltHintDecision(f, duration) ==
  IF f.speed \/ f.rep \/ f.echo
    THEN (IF duration < short_clip_ms THEN "discard" ELSE "retry")
    ELSE "accept"

\* reprocess_with_alternate_model, lines 199-215, after the pass without hint.
AltNoHintDecisionNoSpeedCheck(f) ==
  IF f.echo \/ f.rep THEN "discard" ELSE "accept"

AltNoHintDecision(f) ==
  IF f.echo \/ f.speed \/ f.rep THEN "discard" ELSE "accept"

\* Return values: None, or a str.
ReturnNone == [isNone |-> TRUE, text |-> <<>>]

ReturnStr(t) == [isNone |-> FALSE, text |-> t]

NotReturned == [isNone |-> TRUE, text |-> <<"?">>]

\* main.py line 148: "if not transcript" (None or the empty string).
Falsy(ret) == ret.isNone \/ ret.text = <<>>

\* Utterance durations and chunk durations of the model.
GateDurations == {500, 1000, 4000}

ChunkDurations == {200, 500, 2500}

RECURSIVE SumSeq(_)
SumSeq(q) == IF q = <<>> THEN 0 ELSE Head(q) + SumSeq(Tail(q))

\* What split_on_silence may return for an Utterance of the given duration:
\* up to MaxChunks chunks that fit in it.
ChunkListsFor(duration) ==
  {c \in UNION {[1..n -> ChunkDurations] : n \in 0..MaxChunks} : SumSeq(c) <= duration}

\* The same, up to MaxPassChunks chunks.
PassChunkListsFor(duration) ==
  {c \in UNION {[1..n -> ChunkDurations] : n \in 0..MaxPassChunks} : SumSeq(c) <= duration}

\* The short texts of the remote capability.
PassTexts == {TextPlain, TextRepeated, TextBlank}

VARIABLES
  \* ---- AudioRecorder (producer thread) ----
  threshold_db,        \* self.threshold_db
  lookback_ms,         \* self.lookback_ms
  silence_buffer_chunks, \* self.silence_buffer_chunks
  stop_event,          \* self._stop_event.is_set()
  rec_pc,              \* position of the producer thread
  lookback_buffer,     \* locals of _record_one_segment
  active_buffer,
  silence_count,
  recording,
  bytes_read_total,    \* self._bytes_read_total
  last_db_rms,         \* rms of the frame self._last_db was computed from (-1: None)
  stream,              \* history: rms of every full frame read so far
  stream_ended,        \* the stream has signalled its end (reads return b"")
  aborts,              \* history: _record_one_segment returned None at least once
  discarded,           \* history: positions of the frames an in-progress
                       \* Utterance held when a read error or the end of the
                       \* stream (an empty or a short read) came
  short_frames,        \* history: positions of the reads shorter than a frame
  finalized,           \* history: every buffer _record_one_segment returned
  clock,               \* wall clock, in seconds
  files,               \* RECORDINGS_DIR: path -> frames of the temp WAV
  segment_queue,       \* Queue of temp WAV paths
  enqueued,            \* history: [path, frames] of every put, in order
  \* ---- is_hallucination applied to a transcript ----
  hall_sep,            \* the whitespace between the words of the transcript
  hall_text,           \* the transcript (text)
  hall_letters,        \* words of the repeated vocabulary in it
  hall_fillers,        \* distinct filler words in it
  hall_pc,             \* "build": the input is being drawn; "done": applied
  hall_result,         \* the value is_hallucination returned
  \* ---- transcribe_full_segment applied to one Utterance ----
  g_duration,          \* duration of the Utterance's WAV, ms
  g_chunks,            \* durations of the chunks split_on_silence returns, ms
  g_pc,                \* "call", "chunk", "judge", "done"
  g_pass,              \* the pass in progress
  g_idx,               \* index of the chunk being transcribed
  g_attempt,           \* retry_on_exception: attempt
  g_delay,             \* retry_on_exception: delay
  g_sleeps,            \* history: the delays slept in the current transcribe_chunk call
  g_transcripts,       \* transcripts: the texts collected in the pass in progress
  g_chunk_log,         \* history: what became of each chunk of the pass in progress
  g_passes,            \* history: the passes started, in order
  g_flags,             \* history: pass -> the heuristics on its transcript
  g_submitted,         \* history: the requests sent to the remote capability
  g_return,            \* the value transcribe_full_segment returned
  \* ---- the consumer loop of main() ----
  m_pc,                \* "get", "transcribe", "transcript", "exited"
  m_segment_path,      \* segment_path of the iteration in progress
  m_processed,         \* history: what each dequeued item ended in, and the
                       \* audio its file held at that moment
  \* ---- smells_too_long / contains_prompt_snippet applied to inputs ----
  h_pc,                \* "build", "done"
  h_text,              \* the transcript
  h_count,             \* the number of words it was built from
  h_duration,          \* audio_duration_sec, in milliseconds
  h_prompt,            \* prompt_text
  h_result,            \* the value returned
  \* ---- transcribe_chunk building one request ----
  c_pc,                \* "call", "sent"
  c_config,            \* which of prompt.txt and promptbasic.txt exist
  c_model,             \* model
  c_use_prompt,        \* use_prompt
  c_duration,          \* duration of the chunk, in milliseconds
  c_kwargs,            \* the arguments of client.audio.transcriptions.create
  \* ---- the watchdog thread and the pairs it starts ----
  w_pairs,             \* every ffmpeg process + AudioRecorder started, in order
  w_current,           \* state["recorder"]: index in w_pairs
  w_ffmpeg,            \* state["ffmpeg"]: index in w_pairs
  w_seen,              \* what the main thread read from state when interrupted
  w_pc,                \* "sleep", inside restart_pipeline "terminate", "stop"; "exited"
  w_wake,              \* time at which time.sleep(5) returns
  w_now,               \* time.monotonic(), in seconds
  w_puts,              \* history: who put an Utterance, and who else was live
  w_last_poll,         \* history: what the last poll saw and did
  \* ---- the consumer loop after transcribe_full_segment has returned ----
  d_pc,                \* "get", "transcript", "filter", "save", "insert"
  d_cur,               \* the Utterance in hand and what has been done with it
  d_done,              \* history: the Utterances the loop is done with
  \* ---- send_pushover and its cooldown ----
  n_use,               \* USE_PUSHOVER
  n_now,               \* datetime.now(timezone.utc), in seconds
  n_last,              \* _last_notification_time, <<>> for None
  n_calls              \* history: the calls of send_pushover, in order

segVars == <<threshold_db, lookback_ms, silence_buffer_chunks, stop_event, rec_pc,
             lookback_buffer, active_buffer, silence_count, recording,
             bytes_read_total, last_db_rms, stream, stream_ended, aborts, discarded,
             short_frames, finalized, clock, files, segment_queue, enqueued>>

hallVars == <<hall_sep, hall_text, hall_letters, hall_fillers, hall_pc, hall_result>>

gateVars == <<g_duration, g_chunks, g_pc, g_pass, g_idx, g_attempt, g_delay, g_sleeps,
              g_transcripts, g_chunk_log, g_passes, g_flags, g_submitted, g_return>>

mainVars == <<m_pc, m_segment_path, m_processed>>

heurVars == <<h_pc, h_text, h_count, h_duration, h_prompt, h_result>>

chunkVars == <<c_pc, c_config, c_model, c_use_prompt, c_duration, c_kwargs>>

watchVars == <<w_pairs, w_current, w_ffmpeg, w_seen, w_pc, w_wake, w_now, w_puts,
               w_last_poll>>

deliverVars == <<d_pc, d_cur, d_done>>

notifyVars == <<n_use, n_now, n_last, n_calls>>

vars == <<segVars, hallVars, gateVars, mainVars, heurVars, chunkVars, watchVars,
          deliverVars, notifyVars>>

\* The variables the producer thread never touches.
notSegVars == <<hallVars, gateVars, mainVars, heurVars, chunkVars, watchVars,
                  deliverVars, notifyVars>>

\* The variables is_hallucination's harness never touches.
notHallVars == <<segVars, gateVars, mainVars, heurVars, chunkVars, watchVars,
                  deliverVars, notifyVars>>

\* The variables transcribe_full_segment never touches.
notGateVars == <<segVars, hallVars, mainVars, heurVars, chunkVars, watchVars,
                  deliverVars, notifyVars>>

\* The variables the harness of the two other heuristics never touches.
notHeurVars == <<segVars, hallVars, gateVars, mainVars, chunkVars, watchVars,
                  deliverVars, notifyVars>>

\* The variables transcribe_chunk's harness never touches.
notChunkVars == <<segVars, hallVars, gateVars, mainVars, heurVars, watchVars,
                  deliverVars, notifyVars>>

\* The variables the consumer loop's second half never touches.
notDeliverVars == <<segVars, hallVars, gateVars, mainVars, heurVars, chunkVars,
                    watchVars, notifyVars>>

\* The variables send_pushover never touches.
notNotifyVars == <<segVars, hallVars, gateVars, mainVars, heurVars, chunkVars,
                   watchVars, deliverVars>>

\* The variables the watchdog and its pairs never touch.
notWatchVars == <<segVars, hallVars, gateVars, mainVars, heurVars, chunkVars,
                  deliverVars, notifyVars>>

(***************************************************************************)
(* AudioRecorder: __init__, run, stop, _record_one_segment, _write_wav.    *)
(***************************************************************************)
\* temp_{timestamp}.wav with timestamp = strftime("%Y-%m-%d_%H-%M-%S"): the
\* path is a function of the wall-clock second.
TempWavPath(now) == now

NoFile == <<>>

SegStartFor(lookbacks) ==
  /\ threshold_db \in ThresholdDbChoices
  /\ lookback_ms \in lookbacks
  /\ silence_buffer_chunks = silence_buffer_chunks_of(lookback_ms)
  /\ stop_event = FALSE
  /\ rec_pc = "run"
  /\ lookback_buffer = <<>>
  /\ active_buffer = <<>>
  /\ silence_count = 0
  /\ recording = FALSE
  /\ bytes_read_total = 0
  /\ last_db_rms = -1
  /\ stream = <<>>
  /\ stream_ended = FALSE
  /\ aborts = FALSE
  /\ discarded = {}
  /\ short_frames = {}
  /\ finalized = <<>>
  /\ clock = 0
  /\ files = [p \in 0..MaxClock + 1 |-> NoFile]
  /\ segment_queue = <<>>
  /\ enqueued = <<>>

SegStart == SegStartFor(LookbackMsChoices)

\* The same with a look-back of 0 ms (no frame) among the configurations.
LookbackStart == SegStartFor(LookbackMsChoices \cup {0})

StopIsSetNever(flag) == FALSE

\* self._stop_event.is_set()
StopIsSet(flag) == flag

\* active_buffer: list[bytes] = [] at the start of _record_one_segment
FreshActiveBufferKept(old) == old

FreshActiveBuffer(old) == <<>>

\* The stream positions of the frames of the Utterance in progress.
PartialFrames(active, rec) ==
  IF rec THEN {active[k].pos : k \in DOMAIN active} \ {0} ELSE {}

\* run(): while not self._stop_event.is_set(): frames = self._record_one_segment()
\* and the first lines of _record_one_segment (the locals, the prefill).
RecRunLoop ==
  /\ UNCHANGED notSegVars
  /\ rec_pc = "run"
  /\ IF StopIsSet(stop_event)
       THEN /\ rec_pc' = "stopped"
            /\ UNCHANGED <<lookback_buffer, active_buffer, silence_count, recording>>
       ELSE /\ rec_pc' = "loop"
            /\ lookback_buffer' = PrefilledLookback(silence_buffer_chunks)
            /\ active_buffer' = FreshActiveBuffer(active_buffer)
            /\ silence_count' = 0
            /\ recording' = FALSE
  /\ UNCHANGED <<threshold_db, lookback_ms, silence_buffer_chunks, stop_event,
                 bytes_read_total, last_db_rms, stream, stream_ended, aborts, discarded,
                 short_frames,
                 finalized, clock, files, segment_queue, enqueued>>

\* _record_one_segment: while not self._stop_event.is_set(): ... return None
\* (the run loop's "if frames:" is false for None).
RecLoopTest ==
  /\ UNCHANGED notSegVars
  /\ rec_pc = "loop"
  /\ IF StopIsSet(stop_event)
       THEN rec_pc' = "run" /\ aborts' = TRUE
       ELSE rec_pc' = "reading" /\ aborts' = aborts
  /\ UNCHANGED <<discarded, short_frames>>
  /\ UNCHANGED <<threshold_db, lookback_ms, silence_buffer_chunks, stop_event,
                 lookback_buffer, active_buffer, silence_count, recording,
                 bytes_read_total, last_db_rms, stream, stream_ended,
                 finalized, clock, files, segment_queue, enqueued>>

\* data = self.input_stream.read(...) returns b"": "Audio stream ended", return None.
RecReadEnd ==
  /\ UNCHANGED notSegVars
  /\ rec_pc = "reading"
  /\ stream_ended' = TRUE
  /\ aborts' = TRUE
  /\ discarded' = discarded \cup PartialFrames(active_buffer, recording)
  /\ rec_pc' = "run"
  /\ UNCHANGED short_frames
  /\ UNCHANGED <<threshold_db, lookback_ms, silence_buffer_chunks, stop_event,
                 lookback_buffer, active_buffer, silence_count, recording,
                 bytes_read_total, last_db_rms, stream,
                 finalized, clock, files, segment_queue, enqueued>>

\* The read raises: "Error reading from audio stream", return None.
RecReadError ==
  /\ UNCHANGED notSegVars
  /\ rec_pc = "reading"
  /\ ~stream_ended
  /\ aborts' = TRUE
  /\ discarded' = discarded \cup PartialFrames(active_buffer, recording)
  /\ rec_pc' = "run"
  /\ UNCHANGED short_frames
  /\ UNCHANGED <<threshold_db, lookback_ms, silence_buffer_chunks, stop_event,
                 lookback_buffer, active_buffer, silence_count, recording,
                 bytes_read_total, last_db_rms, stream, stream_ended,
                 finalized, clock, files, segment_queue, enqueued>>

\* The read returns nbytes > 0 bytes of rms r ("if not data" is false): the
\* body of the loop, lines 104-142, whatever nbytes is.  "last" says that
\* these are the last bytes of the stream.
\* An IndexError of lookback_buffer.pop(0) (an empty look-back buffer) leaves
\* _record_one_segment and run() through run's "except Exception".
RecReadData(r, nbytes, last) ==
  /\ UNCHANGED notSegVars
  /\ rec_pc = "reading"
  /\ ~stream_ended
  /\ Len(stream) < MaxFrames
  /\ stream_ended' = last
  /\ short_frames' = IF nbytes < bytes_per_chunk
                       THEN short_frames \cup {Len(stream) + 1}
                       ELSE short_frames
  /\ discarded' = IF nbytes < bytes_per_chunk
                    THEN discarded \cup PartialFrames(active_buffer, recording)
                    ELSE discarded
  /\ LET f == Frame(Len(stream) + 1, r) IN
     /\ stream' = Append(stream, r)
     /\ bytes_read_total' = bytes_read_total + nbytes
     /\ last_db_rms' = r
     /\ IF AboveThreshold(r, threshold_db)
          THEN /\ recording' = TRUE
               /\ active_buffer' =
                    Append(FlushLookback(active_buffer, lookback_buffer, recording), f)
               /\ silence_count' = SilenceCountAfterSpeech(silence_count)
               /\ rec_pc' = "loop"
               /\ UNCHANGED <<lookback_buffer, finalized>>
          ELSE IF recording
            THEN /\ silence_count' = silence_count + 1
                 /\ active_buffer' = Append(active_buffer, f)
                 /\ IF SegmentComplete(silence_count', silence_buffer_chunks)
                      THEN rec_pc' = "emit" /\ finalized' = Append(finalized, active_buffer')
                      ELSE rec_pc' = "loop" /\ finalized' = finalized
                 /\ UNCHANGED <<lookback_buffer, recording>>
            ELSE IF lookback_buffer = <<>>
              THEN /\ rec_pc' = "stopped"
                   /\ UNCHANGED <<lookback_buffer, active_buffer, silence_count,
                                  recording, finalized>>
              ELSE /\ lookback_buffer' = Append(Tail(lookback_buffer), f)
                   /\ rec_pc' = "loop"
                   /\ UNCHANGED <<active_buffer, silence_count, recording, finalized>>
  /\ UNCHANGED <<threshold_db, lookback_ms, silence_buffer_chunks, stop_event,
                 aborts, clock, files, segment_queue, enqueued>>

\* The read returns one full frame of rms r.
RecReadFrame(r) == RecReadData(r, bytes_per_chunk, FALSE)

\* The last bytes of the stream: fewer than a full frame, an even number of
\* them.
ShortReadBytes == 1024

\* The read returns the last bytes of the stream, fewer than a frame.
RecReadShort(r) == RecReadData(r, ShortReadBytes, TRUE)

\* The read returns an odd number of bytes: audioop.rms(data, 2) raises
\* audioop.error (line 104 is outside the try), which leaves
\* _record_one_segment and ends run() through its "except Exception".
RecReadOdd ==
  /\ UNCHANGED notSegVars
  /\ rec_pc = "reading"
  /\ ~stream_ended
  /\ Len(stream) < MaxFrames
  /\ stream_ended' = TRUE
  /\ rec_pc' = "stopped"
  /\ UNCHANGED <<threshold_db, lookback_ms, silence_buffer_chunks, stop_event,
                 lookback_buffer, active_buffer, silence_count, recording,
                 bytes_read_total, last_db_rms, stream, aborts, discarded,
                 short_frames, finalized, clock, files, segment_queue, enqueued>>

\* segment_queue: Queue = Queue(): no maxsize, so put() waits for no free
\* slot.
PutBlocksWhenOneQueued(queue) == Len(queue) >= 1

PutBlocks(queue) == FALSE

\* run(): if frames: timestamp, _write_wav(frames, temp_wav_path) (a failed
\* write is logged and swallowed), self.segment_queue.put(temp_wav_path).
RecEmit(write_ok) ==
  /\ UNCHANGED notSegVars
  /\ rec_pc = "emit"
  /\ ~PutBlocks(segment_queue)
  /\ LET path == TempWavPath(clock) IN
     /\ files' = IF write_ok THEN [files EXCEPT ![path] = active_buffer] ELSE files
     /\ segment_queue' = Append(segment_queue, path)
     /\ enqueued' = Append(enqueued, [path |-> path, frames |-> active_buffer])
  /\ rec_pc' = "run"
  /\ UNCHANGED <<threshold_db, lookback_ms, silence_buffer_chunks, stop_event,
                 lookback_buffer, active_buffer, silence_count, recording,
                 bytes_read_total, last_db_rms, stream, stream_ended, aborts, discarded,
                 short_frames,
                 finalized, clock>>

\* stop(): self._stop_event.set(), called from another thread.
RecStop ==
  /\ UNCHANGED notSegVars
  /\ ~stop_event
  /\ rec_pc # "stopped"
  /\ stop_event' = TRUE
  /\ UNCHANGED <<threshold_db, lookback_ms, silence_buffer_chunks, rec_pc,
                 lookback_buffer, active_buffer, silence_count, recording,
                 bytes_read_total, last_db_rms, stream, stream_ended, aborts, discarded,
                 short_frames,
                 finalized, clock, files, segment_queue, enqueued>>

\* A second of wall-clock time passes.
ClockTick ==
  /\ UNCHANGED notSegVars
  /\ clock < MaxClock
  /\ rec_pc # "stopped"
  /\ clock' = clock + 1
  /\ UNCHANGED <<threshold_db, lookback_ms, silence_buffer_chunks, stop_event, rec_pc,
                 lookback_buffer, active_buffer, silence_count, recording,
                 bytes_read_total, last_db_rms, stream, stream_ended, aborts, discarded,
                 short_frames,
                 finalized, files, segment_queue, enqueued>>

SegNext ==
  \/ RecRunLoop
  \/ RecLoopTest
  \/ RecReadEnd
  \/ RecReadError
  \/ \E r \in RmsValues : RecReadFrame(r)
  \/ \E r \in RmsValues : RecReadShort(r)
  \/ RecReadOdd
  \/ \E ok \in BOOLEAN : RecEmit(ok)
  \/ RecStop

\* The segmenter while the wall clock (time.time() of _write_wav) advances.
NamesNext ==
  \/ SegNext
  \/ ClockTick

\* The variables of the other specifications at rest.
HallIdle ==
  /\ hall_sep = <<" ">>
  /\ hall_text = <<>>
  /\ hall_letters = 0
  /\ hall_fillers = 0
  /\ hall_pc = "idle"
  /\ hall_result = FALSE

HeurIdle ==
  /\ h_pc = "idle"
  /\ h_text = <<>>
  /\ h_count = 0
  /\ h_duration = 0
  /\ h_prompt = <<>>
  /\ h_result = FALSE

NoKwargs == [model |-> "", has_prompt |-> FALSE, prompt |-> <<>>]

ChunkIdle ==
  /\ c_pc = "idle"
  /\ c_config = [dispatch |-> TRUE, basic |-> TRUE]
  /\ c_model = ""
  /\ c_use_prompt = FALSE
  /\ c_duration = 0
  /\ c_kwargs = NoKwargs

NoPoll == [at |-> -1, exited |-> FALSE, age |-> 0, restart |-> FALSE, started |-> FALSE]

WatchIdle ==
  /\ w_pairs = <<>>
  /\ w_current = 0
  /\ w_ffmpeg = 0
  /\ w_seen = <<>>
  /\ w_pc = "idle"
  /\ w_wake = 0
  /\ w_now = 0
  /\ w_puts = {}
  /\ w_last_poll = NoPoll

\* An Utterance whose temporary file the consumer loop holds, nothing done yet.
NewItem(transcript) ==
  [transcript |-> transcript, filtered |-> ReturnNone, outcome |-> "pending",
   file |-> "temp", wav_filename |-> FALSE, copied |-> FALSE, inserted |-> FALSE,
   posted |-> FALSE, published |-> FALSE, notified |-> FALSE]

\* _last_notification_time is <<>> for None and <<t>> for the time t.
NotifyIdle ==
  /\ n_use = FALSE
  /\ n_now = 0
  /\ n_last = <<>>
  /\ n_calls = <<>>

DeliverIdle ==
  /\ d_pc = "idle"
  /\ d_cur = NewItem(ReturnNone)
  /\ d_done = <<>>

NoPath == -1

MainIdle ==
  /\ m_pc = "idle"
  /\ m_segment_path = NoPath
  /\ m_processed = <<>>

GateIdle ==
  /\ g_duration = 0
  /\ g_chunks = <<>>
  /\ g_pc = "idle"
  /\ g_pass = "none"
  /\ g_idx = 0
  /\ g_attempt = 0
  /\ g_delay = 0
  /\ g_sleeps = <<>>
  /\ g_transcripts = <<>>
  /\ g_chunk_log = <<>>
  /\ g_passes = <<>>
  /\ g_flags = [p \in GatePasses |-> NotRun]
  /\ g_submitted = {}
  /\ g_return = NotReturned

SegIdle ==
  /\ threshold_db = -50
  /\ lookback_ms = 1000
  /\ silence_buffer_chunks = silence_buffer_chunks_of(1000)
  /\ stop_event = FALSE
  /\ rec_pc = "idle"
  /\ lookback_buffer = <<>>
  /\ active_buffer = <<>>
  /\ silence_count = 0
  /\ recording = FALSE
  /\ bytes_read_total = 0
  /\ last_db_rms = -1
  /\ stream = <<>>
  /\ stream_ended = FALSE
  /\ aborts = FALSE
  /\ discarded = {}
  /\ short_frames = {}
  /\ finalized = <<>>
  /\ clock = 0
  /\ files = [p \in 0..MaxClock + 1 |-> NoFile]
  /\ segment_queue = <<>>
  /\ enqueued = <<>>

SegInit == NotifyIdle /\ DeliverIdle /\ ChunkIdle /\ WatchIdle /\ SegStart /\ HallIdle /\ GateIdle /\ MainIdle /\ HeurIdle

SpecSeg == SegInit /\ [][SegNext]_vars

SpecNames == SegInit /\ [][NamesNext]_vars

LookbackInit ==
  LookbackStart /\ NotifyIdle /\ DeliverIdle /\ ChunkIdle /\ WatchIdle /\ HallIdle /\ GateIdle
  /\ MainIdle /\ HeurIdle

SpecLookback == LookbackInit /\ [][SegNext]_vars

(***************************************************************************)
(* is_hallucination applied to transcripts: words of a two-word vocabulary *)
(* followed by pairwise distinct filler words.                             *)
(***************************************************************************)
HallVocabulary == {<<"g", "o">>, <<"n", "o">>}

Digit == [d \in 0..9 |-> CASE d = 0 -> "0" [] d = 1 -> "1" [] d = 2 -> "2" [] d = 3 -> "3"
                            [] d = 4 -> "4" [] d = 5 -> "5" [] d = 6 -> "6" [] d = 7 -> "7"
                            [] d = 8 -> "8" [] d = 9 -> "9"]

\* The k-th filler word: "w00", "w01", ...
FillerWord(k) == <<"w", Digit[(k \div 10) % 10], Digit[k % 10]>>

HallSeparators == {<<" ">>, <<"\n", " ">>}

\* "copy that engine five"
HallPhrase ==
  <<"c", "o", "p", "y", " ", "t", "h", "a", "t", " ", "e", "n", "g", "i",
    "n", "e", " ", "f", "i", "v", "e">>

\* The phrase k times over, separated by sep.
HallPhraseTimes(k, sep) == Join([i \in 1..k |-> HallPhrase], sep)

HallStart ==
  /\ hall_sep \in HallSeparators
  /\ hall_text = <<>>
  /\ hall_letters = 0
  /\ hall_fillers = 0
  /\ hall_pc = "build"
  /\ hall_result = FALSE

HallExtend(w) == IF hall_text = <<>> THEN w ELSE hall_text \o hall_sep \o w

HallAppendWord(w) ==
  /\ UNCHANGED notHallVars
  /\ hall_pc = "build"
  /\ hall_fillers = 0
  /\ hall_letters < MaxLetters
  /\ hall_text' = HallExtend(w)
  /\ hall_letters' = hall_letters + 1
  /\ UNCHANGED <<hall_sep, hall_fillers, hall_pc, hall_result>>

HallAppendFiller ==
  /\ UNCHANGED notHallVars
  /\ hall_pc = "build"
  /\ hall_fillers < MaxFiller
  /\ hall_text' = HallExtend(FillerWord(hall_fillers))
  /\ hall_fillers' = hall_fillers + 1
  /\ UNCHANGED <<hall_sep, hall_letters, hall_pc, hall_result>>

\* A transcript made of the four-word phrase repeated k times, nothing else.
HallRepeatPhrase(k) ==
  /\ UNCHANGED notHallVars
  /\ hall_pc = "build"
  /\ hall_text = <<>>
  /\ hall_text' = HallPhraseTimes(k, hall_sep)
  /\ hall_pc' = "built"
  /\ UNCHANGED <<hall_sep, hall_letters, hall_fillers, hall_result>>

\* flagged = is_hallucination(text)
HallApply ==
  /\ UNCHANGED notHallVars
  /\ hall_pc \in {"build", "built"}
  /\ hall_result' = is_hallucination(hall_text)
  /\ hall_pc' = "done"
  /\ UNCHANGED <<hall_sep, hall_text, hall_letters, hall_fillers>>

HallNext ==
  \/ \E w \in HallVocabulary : HallAppendWord(w)
  \/ HallAppendFiller
  \/ \E k \in 1..MaxPhraseRepeats : HallRepeatPhrase(k)
  \/ HallApply

HallInit == NotifyIdle /\ DeliverIdle /\ ChunkIdle /\ WatchIdle /\ HallStart /\ SegIdle /\ GateIdle /\ MainIdle /\ HeurIdle

SpecHall == HallInit /\ [][HallNext]_vars


(***************************************************************************)
(* transcribe_full_segment(segment_wav_path, temp_chunks_dir) applied to   *)
(* one Utterance: split, primary pass, heuristics, escalation.             *)
(***************************************************************************)
GateStart ==
  /\ g_duration \in GateDurations
  /\ g_chunks \in ChunkListsFor(g_duration)
  /\ g_pc = "call"
  /\ g_pass = "none"
  /\ g_idx = 0
  /\ g_attempt = 0
  /\ g_delay = 0
  /\ g_sleeps = <<>>
  /\ g_transcripts = <<>>
  /\ g_chunk_log = <<>>
  /\ g_passes = <<>>
  /\ g_flags = [p \in GatePasses |-> NotRun]
  /\ g_submitted = {}
  /\ g_return = NotReturned

\* A pass starts: chunk_files = split_on_silence(...) (the same file and
\* parameters give the same chunks every time), transcripts = [], and the
\* first transcribe_chunk call starts at attempt 1.
StartPass(pass) ==
  /\ g_pass' = pass
  /\ g_passes' = Append(g_passes, pass)
  /\ g_transcripts' = <<>>
  /\ g_chunk_log' = <<>>
  /\ g_sleeps' = <<>>
  /\ IF g_chunks = <<>>
       THEN g_pc' = "judge" /\ g_idx' = 0 /\ g_attempt' = 0 /\ g_delay' = 0
       ELSE g_pc' = "chunk" /\ g_idx' = 1 /\ g_attempt' = 1 /\ g_delay' = initial_delay

\* The loop over chunk_files moves on to the next chunk, or ends.
NextChunk ==
  IF g_idx = Len(g_chunks)
    THEN g_pc' = "judge" /\ UNCHANGED <<g_idx, g_attempt, g_delay>>
    ELSE /\ g_pc' = "chunk"
         /\ g_idx' = g_idx + 1
         /\ g_attempt' = 1
         /\ g_delay' = initial_delay

\* return <value>
Return(value) ==
  /\ g_return' = value
  /\ g_pc' = "done"

\* History: what became of chunk idx in the pass in progress, and how many
\* times transcribe_chunk's body was invoked for it.
LogEntry(idx, outcome, invocations, text) ==
  [chunk |-> idx, outcome |-> outcome, invocations |-> invocations, text |-> text]

\* Lines 222-234: the split; no chunk, no transcription.
\* if not chunk_files: return None
NoChunksIgnored(chunk_files) == FALSE

NoChunks(chunk_files) == chunk_files = <<>>

GateCall ==
  /\ UNCHANGED notGateVars
  /\ g_pc = "call"
  /\ IF NoChunks(g_chunks)
       THEN /\ Return(ReturnNone)
            /\ UNCHANGED <<g_pass, g_idx, g_attempt, g_delay, g_sleeps, g_transcripts,
                           g_chunk_log, g_passes>>
       ELSE /\ StartPass("primary")
            /\ UNCHANGED g_return
  /\ UNCHANGED <<g_duration, g_chunks, g_flags, g_submitted>>

\* Lines 239-246: the primary pass skips a chunk shorter than 0.25 s.
PrimarySkips(duration) == duration < min_chunk_ms

GateSkipTiny ==
  /\ UNCHANGED notGateVars
  /\ g_pc = "chunk"
  /\ g_pass = "primary"
  /\ PrimarySkips(g_chunks[g_idx])
  /\ g_chunk_log' = Append(g_chunk_log, LogEntry(g_idx, "skipped", 0, <<>>))
  /\ g_sleeps' = <<>>
  /\ NextChunk
  /\ UNCHANGED <<g_duration, g_chunks, g_pass, g_transcripts, g_passes, g_flags,
                 g_submitted, g_return>>

\* The chunk in hand is handed to transcribe_chunk.
Transcribing ==
  /\ g_pc = "chunk"
  /\ ~(g_pass = "primary" /\ PrimarySkips(g_chunks[g_idx]))

\* The request transcribe_chunk sends (lines 97-118).
RequestOf(pass, idx) ==
  [pass |-> pass,
   chunk |-> idx,
   model |-> ModelOfPass(pass),
   duration |-> g_chunks[idx],
   prompt |-> PromptSent(ModelOfPass(pass), UsePromptOfPass(pass), g_chunks[idx])]

\* transcripts.append(text)
CollectFront(transcripts, text) == <<text>> \o transcripts

Collect(transcripts, text) == Append(transcripts, text)

\* The remote capability answers: text = resp.text.strip(); "if text:" the
\* caller appends it.
GateRemoteText(raw) ==
  /\ UNCHANGED notGateVars
  /\ Transcribing
  /\ g_submitted' = g_submitted \cup {RequestOf(g_pass, g_idx)}
  /\ LET text == Strip(raw) IN
     /\ g_transcripts' = IF text # <<>> THEN Collect(g_transcripts, text) ELSE g_transcripts
     /\ g_chunk_log' = Append(g_chunk_log,
                          LogEntry(g_idx, IF text # <<>> THEN "text" ELSE "empty",
                                   g_attempt, text))
  /\ g_sleeps' = IF g_attempt = 1 THEN <<>> ELSE g_sleeps
  /\ NextChunk
  /\ UNCHANGED <<g_duration, g_chunks, g_pass, g_passes, g_flags, g_return>>

\* utils.py line 38: if attempt >= max_attempts: raise
AttemptsExhaustedLate(attempt, n) == attempt > n

AttemptsExhausted(attempt, n) == attempt >= n

\* utils.py line 47: delay *= backoff_factor
NextDelayLinear(delay, factor) == delay + factor

NextDelay(delay, factor) == delay * factor

\* The remote capability raises OpenAIError: retry_on_exception sleeps and
\* retries, or re-raises at the last attempt and the caller skips the chunk.
GateRemoteOpenAIError ==
  /\ UNCHANGED notGateVars
  /\ Transcribing
  /\ g_submitted' = g_submitted \cup {RequestOf(g_pass, g_idx)}
  /\ IF AttemptsExhausted(g_attempt, max_attempts)
       THEN /\ g_chunk_log' = Append(g_chunk_log, LogEntry(g_idx, "failed", g_attempt, <<>>))
            /\ g_sleeps' = IF g_attempt = 1 THEN <<>> ELSE g_sleeps
            /\ NextChunk
       ELSE /\ g_sleeps' = IF g_attempt = 1 THEN <<g_delay>> ELSE Append(g_sleeps, g_delay)
            /\ g_delay' = NextDelay(g_delay, backoff_factor)
            /\ g_attempt' = g_attempt + 1
            /\ UNCHANGED <<g_pc, g_idx, g_chunk_log>>
  /\ UNCHANGED <<g_duration, g_chunks, g_pass, g_transcripts, g_passes, g_flags, g_return>>

\* " ".join(transcripts).strip()
Joined == Strip(Join(g_transcripts, <<" ">>))

\* Lines 263-310: the primary transcript is judged.
GateJudgePrimary ==
  /\ UNCHANGED notGateVars
  /\ g_pc = "judge"
  /\ g_pass = "primary"
  /\ g_flags' = [g_flags EXCEPT !["primary"] = FlagsOf(Joined, g_duration)]
  /\ LET decision == PrimaryDecision(g_flags'["primary"], g_duration) IN
       IF decision = "accept"
         THEN /\ Return(ReturnStr(Joined))
              /\ UNCHANGED <<g_pass, g_idx, g_attempt, g_delay, g_sleeps, g_transcripts,
                             g_chunk_log, g_passes>>
       ELSE IF decision = "discard"
         THEN /\ Return(ReturnNone)
              /\ UNCHANGED <<g_pass, g_idx, g_attempt, g_delay, g_sleeps, g_transcripts,
                             g_chunk_log, g_passes>>
         ELSE /\ StartPass(NextPass("primary"))
              /\ UNCHANGED g_return
  /\ UNCHANGED <<g_duration, g_chunks, g_submitted>>

\* reprocess_with_alternate_model, lines 170-198 (and 202-215 when the
\* transcript is not flagged): the alternate transcript with hint is judged.
GateJudgeAltHint ==
  /\ UNCHANGED notGateVars
  /\ g_pc = "judge"
  /\ g_pass = "alt_hint"
  /\ g_flags' = [g_flags EXCEPT !["alt_hint"] = FlagsOf(Joined, g_duration)]
  /\ LET decision == AltHintDecision(g_flags'["alt_hint"], g_duration) IN
       IF decision = "accept"
         THEN /\ Return(ReturnStr(Joined))
              /\ UNCHANGED <<g_pass, g_idx, g_attempt, g_delay, g_sleeps, g_transcripts,
                             g_chunk_log, g_passes>>
       ELSE IF decision = "discard"
         THEN /\ Return(ReturnStr(<<>>))
              /\ UNCHANGED <<g_pass, g_idx, g_attempt, g_delay, g_sleeps, g_transcripts,
                             g_chunk_log, g_passes>>
         ELSE /\ StartPass(NextPass("alt_hint"))
              /\ UNCHANGED g_return
  /\ UNCHANGED <<g_duration, g_chunks, g_submitted>>

\* reprocess_with_alternate_model, lines 194-215: the alternate transcript
\* without hint is judged.
GateJudgeAltNoHint ==
  /\ UNCHANGED notGateVars
  /\ g_pc = "judge"
  /\ g_pass = "alt_nohint"
  /\ g_flags' = [g_flags EXCEPT !["alt_nohint"] = FlagsOf(Joined, g_duration)]
  /\ IF AltNoHintDecision(g_flags'["alt_nohint"]) = "accept"
       THEN Return(ReturnStr(Joined))
       ELSE Return(ReturnStr(<<>>))
  /\ UNCHANGED <<g_duration, g_chunks, g_pass, g_idx, g_attempt, g_delay, g_sleeps,
                 g_transcripts, g_chunk_log, g_passes, g_submitted>>

GateNext ==
  \/ GateCall
  \/ GateSkipTiny
  \/ \E raw \in RemoteTexts : GateRemoteText(raw)
  \/ GateRemoteOpenAIError
  \/ GateJudgePrimary
  \/ GateJudgeAltHint
  \/ GateJudgeAltNoHint

GateInit == NotifyIdle /\ DeliverIdle /\ ChunkIdle /\ WatchIdle /\ GateStart /\ SegIdle /\ HallIdle /\ MainIdle /\ HeurIdle

\* Utterances of up to MaxPassChunks chunks.
PassStart ==
  /\ g_duration \in GateDurations
  /\ g_chunks \in PassChunkListsFor(g_duration)
  /\ g_pc = "call"
  /\ g_pass = "none"
  /\ g_idx = 0
  /\ g_attempt = 0
  /\ g_delay = 0
  /\ g_sleeps = <<>>
  /\ g_transcripts = <<>>
  /\ g_chunk_log = <<>>
  /\ g_passes = <<>>
  /\ g_flags = [p \in GatePasses |-> NotRun]
  /\ g_submitted = {}
  /\ g_return = NotReturned

PassNext ==
  \/ GateCall
  \/ GateSkipTiny
  \/ \E raw \in PassTexts : GateRemoteText(raw)
  \/ GateRemoteOpenAIError
  \/ GateJudgePrimary
  \/ GateJudgeAltHint
  \/ GateJudgeAltNoHint

PassInit == NotifyIdle /\ DeliverIdle /\ ChunkIdle /\ WatchIdle /\ PassStart /\ SegIdle /\ HallIdle /\ MainIdle /\ HeurIdle

SpecPasses == PassInit /\ [][PassNext]_vars

SpecGate == GateInit /\ [][GateNext]_vars

\* Texts that trip the prompt-echo heuristic together with another one:
\* TextEcho followed by TextRepeated, and TextEcho followed by twenty words.
TextEchoRepeated == TextEcho \o <<" ">> \o TextRepeated

TextEchoFast == TextEcho \o <<" ">> \o TextTwentyWords

OrderTexts == {TextPlain, TextEcho, TextEchoRepeated, TextEchoFast}

\* Utterances of one chunk.
OrderStart ==
  /\ g_duration \in GateDurations
  /\ g_chunks \in {<<d>> : d \in {c \in ChunkDurations : c <= g_duration}}
  /\ g_pc = "call"
  /\ g_pass = "none"
  /\ g_idx = 0
  /\ g_attempt = 0
  /\ g_delay = 0
  /\ g_sleeps = <<>>
  /\ g_transcripts = <<>>
  /\ g_chunk_log = <<>>
  /\ g_passes = <<>>
  /\ g_flags = [p \in GatePasses |-> NotRun]
  /\ g_submitted = {}
  /\ g_return = NotReturned

OrderInit ==
  OrderStart /\ NotifyIdle /\ DeliverIdle /\ ChunkIdle /\ WatchIdle /\ SegIdle /\ HallIdle
  /\ MainIdle /\ HeurIdle

\* transcribe_full_segment on one Utterance whose transcripts may trip
\* several heuristics at once.
OrderNext ==
  \/ GateCall
  \/ GateSkipTiny
  \/ \E raw \in OrderTexts : GateRemoteText(raw)
  \/ GateRemoteOpenAIError
  \/ GateJudgePrimary
  \/ GateJudgeAltHint
  \/ GateJudgeAltNoHint

SpecOrder == OrderInit /\ [][OrderNext]_vars


(***************************************************************************)
(* The consumer loop of main() (src/main.py, lines 129-245), fed by the    *)
(* producer's queue.                                                       *)
(***************************************************************************)
\* The hallVars and gateVars: the variables the consumer loop never touches.
notMainVars == <<hallVars, gateVars, heurVars, chunkVars, watchVars,
                  deliverVars, notifyVars>>

\* The producer-side variables the consumer loop leaves alone.
recorderVars == <<threshold_db, lookback_ms, silence_buffer_chunks, rec_pc,
                  lookback_buffer, active_buffer, silence_count, recording,
                  bytes_read_total, last_db_rms, stream, stream_ended, aborts, discarded,
                 short_frames,
                  finalized>>

\* The n-th Utterance as the Segmenter finalizes it with one look-back frame:
\* frames 2n - 1 and 2n of the stream.
MainUtterance(n) == <<silent_frame, Frame(2 * n - 1, 100), Frame(2 * n, 0)>>

\* The keywords of the call at main.py lines 140-145.
MainCallKeywords ==
  {"segment_wav_path", "temp_chunks_dir", "min_silence_len", "silence_thresh"}

\* The parameters of transcribe_full_segment (transcribe.py lines 218-221).
TranscribeFullSegmentParams == {"segment_wav_path", "temp_chunks_dir"}

\* Python binds a call's keywords to the parameters of a function without
\* **kwargs, or raises TypeError (unexpected keyword argument).
CallBinds(keywords, params) == keywords \subseteq params

MainStart ==
  /\ m_pc = "get"
  /\ m_segment_path = NoPath
  /\ m_processed = <<>>

\* AudioRecorder.run(), lines 61-68, once _record_one_segment has returned
\* the frames of an Utterance.
MainProducerPut(write_ok) ==
  /\ UNCHANGED notMainVars
  /\ ~stop_event
  /\ Len(enqueued) < MaxUtterances
  /\ ~PutBlocks(segment_queue)
  /\ LET path == TempWavPath(clock)
         frames == MainUtterance(Len(enqueued) + 1)
     IN
     /\ files' = IF write_ok THEN [files EXCEPT ![path] = frames] ELSE files
     /\ segment_queue' = Append(segment_queue, path)
     /\ enqueued' = Append(enqueued, [path |-> path, frames |-> frames])
  /\ UNCHANGED <<recorderVars, stop_event, clock, mainVars>>

\* segment_path = segment_queue.get(); a path whose file does not exist is
\* skipped (lines 131-133).
MainGet ==
  /\ UNCHANGED notMainVars
  /\ m_pc = "get"
  /\ segment_queue # <<>>
  /\ LET path == Head(segment_queue) IN
     /\ segment_queue' = Tail(segment_queue)
     /\ m_segment_path' = path
     /\ IF files[path] = NoFile
          THEN /\ m_pc' = "get"
               /\ m_processed' = Append(m_processed,
                                   [path |-> path, existed |-> FALSE, outcome |-> "skipped",
                                    frames |-> NoFile])
          ELSE /\ m_pc' = "transcribe"
               /\ UNCHANGED m_processed
  /\ UNCHANGED <<recorderVars, stop_event, clock, files, enqueued>>

\* Lines 243-245: "except Exception: logger.exception(...); continue".
AfterExceptionLeavesLoop == "exited"

AfterException == "get"

\* Lines 138-145: the call of transcribe_full_segment.  When the keywords do
\* not bind, the call raises TypeError before the function body runs, the
\* "except Exception" of lines 243-245 logs it and the loop continues with
\* the next queue item; lines 147-222 are reached only when the call binds.
MainTranscribe ==
  /\ UNCHANGED notMainVars
  /\ m_pc = "transcribe"
  /\ IF CallBinds(MainCallKeywords, TranscribeFullSegmentParams)
       THEN /\ m_pc' = "transcript"
            /\ UNCHANGED m_processed
       ELSE /\ m_pc' = AfterException
            /\ m_processed' = Append(m_processed,
                                [path |-> m_segment_path, existed |-> TRUE,
                                 outcome |-> "exception",
                                 frames |-> files[m_segment_path]])
  /\ UNCHANGED <<segVars, m_segment_path>>

\* Lines 225-242: KeyboardInterrupt stops the recorder and leaves the loop.
MainKeyboardInterrupt ==
  /\ UNCHANGED notMainVars
  /\ m_pc \in {"get", "transcribe"}
  /\ stop_event' = TRUE
  /\ m_pc' = "exited"
  /\ UNCHANGED <<recorderVars, clock, files, segment_queue, enqueued,
                 m_segment_path, m_processed>>

MainNext ==
  \/ \E write_ok \in BOOLEAN : MainProducerPut(write_ok)
  \/ ClockTick
  \/ MainGet
  \/ MainTranscribe
  \/ MainKeyboardInterrupt

MainInit == NotifyIdle /\ DeliverIdle /\ ChunkIdle /\ WatchIdle /\ MainStart /\ SegIdle /\ HallIdle /\ GateIdle /\ HeurIdle

SpecMain == MainInit /\ [][MainNext]_vars

(***************************************************************************)
(* smells_too_long applied to transcripts of pairwise distinct words and   *)
(* to audio durations around its limits.                                   *)
(***************************************************************************)
\* Audio durations, in milliseconds: below the 0.1 s floor, at the floor,
\* and on both sides of 20 / 5.5 s and 22 / 5.5 s.
SpeedDurations == {50, 100, 1000, 2000, 3636, 3637, 4000, 10000}

SpeedStart ==
  /\ h_pc = "build"
  /\ h_text = <<>>
  /\ h_count = 0
  /\ h_duration \in SpeedDurations
  /\ h_prompt = <<>>
  /\ h_result = FALSE

SpeedAppendWord ==
  /\ UNCHANGED notHeurVars
  /\ h_pc = "build"
  /\ h_count < MaxSpeedWords
  /\ h_text' = IF h_text = <<>> THEN FillerWord(h_count)
               ELSE h_text \o <<" ">> \o FillerWord(h_count)
  /\ h_count' = h_count + 1
  /\ UNCHANGED <<h_pc, h_duration, h_prompt, h_result>>

\* smells_too_long(text, audio_duration_sec)
SpeedApply ==
  /\ UNCHANGED notHeurVars
  /\ h_pc = "build"
  /\ h_result' = smells_too_long(h_text, h_duration)
  /\ h_pc' = "done"
  /\ UNCHANGED <<h_text, h_count, h_duration, h_prompt>>

SpeedNext ==
  \/ SpeedAppendWord
  \/ SpeedApply

SpeedInit == NotifyIdle /\ DeliverIdle /\ ChunkIdle /\ WatchIdle /\ SpeedStart /\ SegIdle /\ HallIdle /\ GateIdle /\ MainIdle

SpecSpeed == SpeedInit /\ [][SpeedNext]_vars

(***************************************************************************)
(* contains_prompt_snippet applied to hints and to transcripts cut from    *)
(* them, optionally wrapped in other words and upper-cased.                *)
(***************************************************************************)
\* "Lakewood Fire": a hint shorter than the threshold.
TinyPrompt ==
  <<"L", "a", "k", "e", "w", "o", "o", "d", " ", "F", "i", "r", "e">>

EchoPrompts == {DISPATCH_PROMPT, SHORT_PROMPT, BASIC_PROMPT, TinyPrompt}

\* "respond Medic 2, traffic copy Engine 5 units Lakewood radio": words of
\* the hints, in another order.
TextScattered ==
  <<"r", "e", "s", "p", "o", "n", "d", " ", "M", "e", "d", "i", "c", " ",
    "2", ",", " ", "t", "r", "a", "f", "f", "i", "c", " ", "c", "o", "p",
    "y", " ", "E", "n", "g", "i", "n", "e", " ", "5", " ", "u", "n", "i",
    "t", "s", " ", "L", "a", "k", "e", "w", "o", "o", "d", " ", "r", "a",
    "d", "i", "o">>

\* "Copy, "
EchoPrefix ==
  <<"C", "o", "p", "y", ",", " ">>

\* " - on scene!\n"
EchoSuffix ==
  <<" ", "-", " ", "o", "n", " ", "s", "c", "e", "n", "e", "!", "\n">>

\* The shortest run cut from a hint.
MinEchoRun == 20

\* str.upper() on the letters of the model's texts.
Upper(t) ==
  [i \in 1..Len(t) |->
     IF \E u \in DOMAIN LowerOf : LowerOf[u] = t[i]
       THEN CHOOSE u \in DOMAIN LowerOf : LowerOf[u] = t[i]
       ELSE t[i]]

EchoStart ==
  /\ h_pc = "build"
  /\ h_text = <<>>
  /\ h_count = 0
  /\ h_duration = 0
  /\ h_prompt \in EchoPrompts
  /\ h_result = FALSE

\* The transcript is a run of the hint's characters.
EchoTakeRun(i, len) ==
  /\ UNCHANGED notHeurVars
  /\ h_pc = "build"
  /\ h_text = <<>>
  /\ i + len - 1 <= Len(h_prompt)
  /\ h_text' = SubSeq(h_prompt, i, i + len - 1)
  /\ UNCHANGED <<h_pc, h_count, h_duration, h_prompt, h_result>>

\* The transcript is made of words of the hints in another order.
EchoTakeScattered ==
  /\ UNCHANGED notHeurVars
  /\ h_pc = "build"
  /\ h_text = <<>>
  /\ h_text' = TextScattered
  /\ UNCHANGED <<h_pc, h_count, h_duration, h_prompt, h_result>>

\* Other words around the transcript.
EchoWrap ==
  /\ UNCHANGED notHeurVars
  /\ h_pc = "build"
  /\ h_text # <<>>
  /\ h_count = 0
  /\ h_text' = EchoPrefix \o h_text \o EchoSuffix
  /\ h_count' = 1
  /\ UNCHANGED <<h_pc, h_duration, h_prompt, h_result>>

\* The transcript in capitals.
EchoShout ==
  /\ UNCHANGED notHeurVars
  /\ h_pc = "build"
  /\ h_text # <<>>
  /\ h_count < 2
  /\ h_text' = Upper(h_text)
  /\ h_count' = 2
  /\ UNCHANGED <<h_pc, h_duration, h_prompt, h_result>>

\* contains_prompt_snippet(text, prompt_text)
EchoApply ==
  /\ UNCHANGED notHeurVars
  /\ h_pc = "build"
  /\ h_result' = contains_prompt_snippet(h_text, h_prompt)
  /\ h_pc' = "done"
  /\ UNCHANGED <<h_text, h_count, h_duration, h_prompt>>

EchoNext ==
  \/ \E i \in 1..MaxEchoRun, len \in MinEchoRun..MaxEchoRun : EchoTakeRun(i, len)
  \/ EchoTakeScattered
  \/ EchoWrap
  \/ EchoShout
  \/ EchoApply

EchoInit == NotifyIdle /\ DeliverIdle /\ ChunkIdle /\ WatchIdle /\ EchoStart /\ SegIdle /\ HallIdle /\ GateIdle /\ MainIdle

SpecEcho == EchoInit /\ [][EchoNext]_vars

(***************************************************************************)
(* Claims about the Segmenter (specification SpecSeg).                     *)
(***************************************************************************)
\* The frame's energy is at or below the threshold: rms = 0 (negative
\* infinity dB) or 20 log10(rms) <= threshold.
AtOrBelow(r) == r = 0 \/ Log10x20(r) <= threshold_db

LoudPositions(s) == {i \in 1..Len(s) : ~AtOrBelow(s[i])}

MaxOf(S) == CHOOSE x \in S : \A y \in S : y <= x

MinOf(S) == CHOOSE x \in S : \A y \in S : x <= y

\* Number of sub-threshold frames read since the last above-threshold frame.
TrailingQuiet(s) ==
  IF LoudPositions(s) = {} THEN Len(s) ELSE Len(s) - MaxOf(LoudPositions(s))

\* C1: as long as every frame read so far is at or below the threshold
\* (energy equal to the threshold and rms = 0 included), the Segmenter is not
\* RECORDING, has finalized no Utterance and nothing has been enqueued.
C1_SilenceNeverFinalizes ==
  (\A i \in 1..Len(stream) : AtOrBelow(stream[i])) =>
     /\ ~recording
     /\ rec_pc # "emit"
     /\ active_buffer = <<>>
     /\ finalized = <<>>
     /\ segment_queue = <<>>
     /\ enqueued = <<>>

\* A silence-only stream of the full length with an rms = 0 frame and a frame
\* whose energy equals the threshold, read to its end.
C1_Witness ==
  /\ Len(stream) = MaxFrames
  /\ \A i \in 1..Len(stream) : AtOrBelow(stream[i])
  /\ \E i \in 1..Len(stream) : stream[i] = 0
  /\ \E i \in 1..Len(stream) : stream[i] > 0 /\ Log10x20(stream[i]) = threshold_db
  /\ rec_pc = "loop"

\* The stream read so far is a sub-threshold frames, then k >= 1 consecutive
\* above-threshold frames, then b sub-threshold frames, with a >= N and b >= N,
\* read without interruption (no stop, stream end or read error).
C2_Shape ==
  /\ ~aborts
  /\ LoudPositions(stream) # {}
  /\ LET first == MinOf(LoudPositions(stream))
         last == MaxOf(LoudPositions(stream))
     IN /\ \A i \in first..last : i \in LoudPositions(stream)
        /\ first - 1 >= silence_buffer_chunks
        /\ Len(stream) - last >= silence_buffer_chunks

\* The N frames before the first above-threshold frame, the k above-threshold
\* frames and the first N frames after them, in stream order.
C2_Expected ==
  LET first == MinOf(LoudPositions(stream))
      last == MaxOf(LoudPositions(stream))
      n == silence_buffer_chunks
  IN [i \in 1..(n + (last - first + 1) + n) |->
        Frame(first - n + i - 1, stream[first - n + i - 1])]

\* C2: for a stream of at least N sub-threshold frames, k >= 1 above-threshold
\* frames and at least N sub-threshold frames, exactly one Utterance is
\* finalized, its buffer is the N + k + N frames around the speech in stream
\* order, and that buffer is what the producer writes and enqueues.
C2_OneUtteranceWithLookback ==
  C2_Shape =>
     /\ finalized = <<C2_Expected>>
     /\ rec_pc # "emit" =>
          /\ Len(enqueued) = 1
          /\ enqueued[1].frames = C2_Expected
          /\ Len(segment_queue) = 1

\* More leading silence than the look-back holds (its oldest frame was
\* evicted), speech and more trailing silence than needed, the Utterance
\* enqueued.
C2_Witness ==
  /\ C2_Shape
  /\ MinOf(LoudPositions(stream)) - 1 > silence_buffer_chunks
  /\ Len(stream) > MaxOf(LoudPositions(stream)) + silence_buffer_chunks
  /\ Len(enqueued) = 1

\* The same with a look-back of two frames.
C2_WitnessTwoFrames ==
  /\ C2_Shape
  /\ silence_buffer_chunks = 2
  /\ Len(finalized) = 1

\* C3 (state part): while RECORDING the trailing-silence counter is the number
\* of sub-threshold frames read since the last above-threshold frame, and the
\* Segmenter never keeps recording once N of them have been read.
C3_CounterInv ==
  (rec_pc \in {"loop", "reading"} /\ recording) =>
     /\ silence_count = TrailingQuiet(stream)
     /\ TrailingQuiet(stream) < silence_buffer_chunks

\* C3 (step part): a frame read while RECORDING is appended; above the
\* threshold it resets the counter to 0, below it increments it; a read
\* finalizes an Utterance exactly when it is the N-th consecutive
\* sub-threshold frame since the last above-threshold frame.
C3_FrameStep ==
  (Len(stream') = Len(stream) + 1) =>
     LET r == stream'[Len(stream')]
         f == Frame(Len(stream'), r)
     IN /\ (recording /\ ~AtOrBelow(r)) =>
              /\ silence_count' = 0
              /\ active_buffer' = Append(active_buffer, f)
        /\ (recording /\ AtOrBelow(r)) =>
              /\ silence_count' = silence_count + 1
              /\ active_buffer' = Append(active_buffer, f)
        /\ (Len(finalized') = Len(finalized) + 1) <=>
              /\ recording
              /\ AtOrBelow(r)
              /\ TrailingQuiet(stream') = silence_buffer_chunks
        /\ (Len(finalized') = Len(finalized) + 1) =>
              finalized'[Len(finalized')] = active_buffer'

\* C3: every above-threshold frame resets the trailing-silence counter, every
\* sub-threshold frame read while RECORDING is appended and increments it, and
\* the Utterance is finalized exactly at the N-th consecutive sub-threshold
\* frame, never earlier and never later.
C3_FinalizeAtNthSilence == [](C3_CounterInv) /\ [][C3_FrameStep]_vars

\* Silence that adds up to N = 2 without being consecutive (speech, silence,
\* speech, silence) has been read and the Segmenter is still RECORDING; the
\* next sub-threshold frame is the one that finalizes.
C3_Witness ==
  /\ silence_buffer_chunks = 2
  /\ recording
  /\ rec_pc = "reading"
  /\ silence_count = 1
  /\ Len(stream) >= 4
  /\ AtOrBelow(stream[Len(stream)])
  /\ ~AtOrBelow(stream[Len(stream) - 1])
  /\ AtOrBelow(stream[Len(stream) - 2])
  /\ ~AtOrBelow(stream[Len(stream) - 3])
  /\ finalized = <<>>

\* C4: every Utterance the producer enqueues is non-empty, has at least
\* 2N + 1 frames, has a frame above the threshold at index N and only frames
\* at or below the threshold among its last N.
C4_EnqueuedHasSpeech ==
  \A k \in 1..Len(enqueued) :
     LET fr == enqueued[k].frames
         n == silence_buffer_chunks
     IN /\ fr # <<>>
        /\ Len(fr) >= 2 * n + 1
        /\ ~AtOrBelow(fr[n + 1].rms)
        /\ \A i \in (Len(fr) - n + 1)..Len(fr) : AtOrBelow(fr[i].rms)
        /\ segment_queue[k] = enqueued[k].path

\* Two Utterances enqueued, the second longer than the minimum.
C4_Witness ==
  /\ Len(enqueued) = 2
  /\ Len(enqueued[2].frames) > 2 * silence_buffer_chunks + 1

(***************************************************************************)
(* Claims about the repeated-phrase heuristic (specification SpecHall).    *)
(***************************************************************************)
\* The words of the transcript and its word n-grams, as word tuples.
HallWordsOf(t) == Split(t)

NGramsOf(ws, n) == {SubSeq(ws, i, i + n - 1) : i \in 1..(Len(ws) - n + 1)}

OccurrencesOf(ws, g) ==
  Cardinality({i \in 1..(Len(ws) - Len(g) + 1) : SubSeq(ws, i, i + Len(g) - 1) = g})

\* Some word n-gram, 3 <= n <= 6, occurring at least `least` times, has n
\* times its number of occurrences at least 40% of the word count.
SomeNGramCovers(ws, least) ==
  \E n \in 3..6 : \E g \in NGramsOf(ws, n) :
     /\ OccurrencesOf(ws, g) >= least
     /\ 5 * n * OccurrencesOf(ws, g) >= 2 * Len(ws)

\* C10 as stated: is_hallucination(text) is true exactly when some word
\* n-gram with 3 <= n <= 6 has n times its number of occurrences at least 40%
\* of the text's word count.
C10_AsStated ==
  hall_pc = "done" => (hall_result <=> SomeNGramCovers(HallWordsOf(hall_text), 1))

\* C10 amended: is_hallucination(text) is true exactly when some word n-gram
\* with 3 <= n <= 6 that occurs at least 3 times has n times its number of
\* occurrences at least 40% of the text's word count.
C10_FlaggedIffRepeatedNGramCovers ==
  hall_pc = "done" => (hall_result <=> SomeNGramCovers(HallWordsOf(hall_text), 3))

\* A transcript of 30 words in which a 3-gram occurs 4 times: exactly 40%.
C10_Witness ==
  /\ hall_pc = "done"
  /\ hall_result
  /\ Len(HallWordsOf(hall_text)) = 30
  /\ \A n \in 3..6 : \A g \in NGramsOf(HallWordsOf(hall_text), n) :
        5 * n * OccurrencesOf(HallWordsOf(hall_text), g) <= 2 * 30

\* A transcript with an n-gram occurring 3 times that covers less than 40%.
C10_WitnessBelow ==
  /\ hall_pc = "done"
  /\ ~hall_result
  /\ \E g \in NGramsOf(HallWordsOf(hall_text), 3) : OccurrencesOf(HallWordsOf(hall_text), g) >= 3

\* No word n-gram with 3 <= n <= 6 occurs more than twice.
NoNGramMoreThanTwice(ws) ==
  \A n \in 3..6 : \A g \in NGramsOf(ws, n) : OccurrencesOf(ws, g) <= 2

\* The words of the four-word phrase repeated k times.
PhraseWords(k) == [i \in 1..(4 * k) |-> Split(HallPhrase)[((i - 1) % 4) + 1]]

\* C11: a transcript in which no 3-to-6-word n-gram occurs more than twice
\* is not flagged by is_hallucination, whatever its length; the 40-word
\* transcript made of a four-word phrase repeated 10 times is flagged.
C11_TwiceNeverTenTimesFlagged ==
  hall_pc = "done" =>
    /\ NoNGramMoreThanTwice(HallWordsOf(hall_text)) => ~hall_result
    /\ HallWordsOf(hall_text) = PhraseWords(10) => hall_result

\* The 40-word transcript was judged and flagged.
C11_Witness ==
  /\ hall_pc = "done"
  /\ HallWordsOf(hall_text) = PhraseWords(10)
  /\ Len(HallWordsOf(hall_text)) = 40
  /\ hall_result

\* The phrase repeated twice, and a 30-word transcript with a 3-gram
\* occurring twice, were judged and not flagged.
C11_WitnessTwice ==
  /\ hall_pc = "done"
  /\ ~hall_result
  /\ NoNGramMoreThanTwice(HallWordsOf(hall_text))
  /\ \/ HallWordsOf(hall_text) = PhraseWords(2)
     \/ /\ Len(HallWordsOf(hall_text)) = 30
        /\ \E g \in NGramsOf(HallWordsOf(hall_text), 3) :
              OccurrencesOf(HallWordsOf(hall_text), g) = 2


(***************************************************************************)
(* Claims about the quality gate (specification SpecGate).                 *)
(***************************************************************************)
Flagged(f) == f.speed \/ f.rep \/ f.echo

PassRan(pass) == \E i \in DOMAIN g_passes : g_passes[i] = pass

Returned == g_pc = "done"

\* Every chunk of the Utterance was submitted to the alternate model with a
\* priming hint.
AllChunksResubmittedWithHint ==
  \A i \in DOMAIN g_chunks :
    \E r \in g_submitted :
      /\ r.pass = "alt_hint"
      /\ r.chunk = i
      /\ r.model = ALTERNATE_MODEL
      /\ r.prompt # "none"

EscalatedWithHint == PassRan("alt_hint") /\ AllChunksResubmittedWithHint

\* C5 as stated: once transcribe_full_segment has returned, a primary
\* transcript that tripped the speed, repeated-phrase or prompt-echo
\* heuristic has been followed by a full alternate-model pass with a priming
\* hint, whatever the Utterance's duration.
C5_AsStated ==
  (Returned /\ Flagged(g_flags["primary"])) => EscalatedWithHint

\* The case the code treats otherwise: only prompt-echo trips, on an
\* Utterance shorter than 1.0 s.
ShortEchoOnly ==
  /\ g_flags["primary"].echo
  /\ ~g_flags["primary"].speed
  /\ ~g_flags["primary"].rep
  /\ g_duration < short_clip_ms

\* C5: once transcribe_full_segment has returned, a primary transcript that
\* tripped the speed or repeated-phrase heuristic (at any duration), or the
\* prompt-echo heuristic on an Utterance of at least 1.0 s, has been followed
\* by a full alternate-model pass with a priming hint; a primary transcript
\* that tripped only prompt-echo on an Utterance shorter than 1.0 s is
\* discarded (None) with no alternate-model pass; a primary transcript that
\* tripped nothing is returned with no alternate-model pass.
C5_EscalatedUnlessShortEcho ==
  Returned =>
    /\ (Flagged(g_flags["primary"]) /\ ~ShortEchoOnly) => EscalatedWithHint
    /\ ShortEchoOnly => (g_passes = <<"primary">> /\ g_return = ReturnNone)
    /\ (g_flags["primary"].ran /\ ~Flagged(g_flags["primary"])) => g_passes = <<"primary">>

\* An Utterance shorter than 1.0 s whose primary transcript tripped the
\* repeated-phrase heuristic was re-transcribed with the alternate model.
C5_Witness ==
  /\ Returned
  /\ g_flags["primary"].rep
  /\ g_duration < short_clip_ms
  /\ EscalatedWithHint

\* C6: when the primary transcript was flagged, the alternate transcript
\* with hint is flagged too and the Utterance is shorter than 1.0 s, the
\* call has returned at once: no pass without hint was started, no request
\* without hint was sent, and the value returned is the empty string, which
\* the consumer's "if not transcript" treats as nothing to persist.
C6_ShortFlaggedDiscarded ==
  (/\ Flagged(g_flags["primary"])
   /\ Flagged(g_flags["alt_hint"])
   /\ g_duration < short_clip_ms)
  => /\ Returned
     /\ g_passes = <<"primary", "alt_hint">>
     /\ \A r \in g_submitted : r.pass # "alt_nohint"
     /\ g_return = ReturnStr(<<>>)
     /\ Falsy(g_return)

C6_Witness ==
  /\ Returned
  /\ Flagged(g_flags["primary"])
  /\ Flagged(g_flags["alt_hint"])
  /\ g_duration < short_clip_ms
  /\ g_return = ReturnStr(<<>>)

\* C7: when the alternate transcript with hint is flagged and the Utterance
\* lasts at least 1.0 s, exactly one more pass follows, with the alternate
\* model and no hint in any request; once the call has returned, the value
\* is that pass's transcript if it trips none of the three heuristics and
\* the empty string otherwise.
C7_OneHintlessRetry ==
  (Flagged(g_flags["alt_hint"]) /\ g_duration >= short_clip_ms)
  => /\ g_passes = <<"primary", "alt_hint", "alt_nohint">>
     /\ \A r \in g_submitted :
          r.pass = "alt_nohint" => (r.model = ALTERNATE_MODEL /\ r.prompt = "none")
     /\ Returned =>
          /\ g_flags["alt_nohint"].ran
          /\ g_return = IF Flagged(g_flags["alt_nohint"])
                          THEN ReturnStr(<<>>)
                          ELSE ReturnStr(Joined)

\* The pass without hint produced a clean, non-empty transcript that was
\* returned.
C7_Witness ==
  /\ Returned
  /\ Flagged(g_flags["alt_hint"])
  /\ g_duration >= short_clip_ms
  /\ g_flags["alt_nohint"].ran
  /\ ~Flagged(g_flags["alt_nohint"])
  /\ g_return = ReturnStr(Joined)
  /\ Joined # <<>>

\* The pass without hint was flagged by the speed heuristic alone and the
\* Utterance was discarded.
C7_WitnessDiscard ==
  /\ Returned
  /\ Flagged(g_flags["alt_hint"])
  /\ g_duration >= short_clip_ms
  /\ g_flags["alt_nohint"].speed
  /\ ~g_flags["alt_nohint"].rep
  /\ ~g_flags["alt_nohint"].echo
  /\ g_return = ReturnStr(<<>>)

IsPrefix(a, b) == Len(a) <= Len(b) /\ \A i \in DOMAIN a : a[i] = b[i]

\* The passes started so far are the first ones of: primary, alternate with
\* hint, alternate without hint; and every request belongs to a pass started.
BoundedPasses ==
  /\ IsPrefix(g_passes, <<"primary", "alt_hint", "alt_nohint">>)
  /\ \A r \in g_submitted :
       /\ PassRan(r.pass)
       /\ r.model = PRIMARY_MODEL <=> r.pass = "primary"

\* An upper bound on the steps the call can still take: the passes not yet
\* started, each of at most max_attempts requests per chunk and one
\* judgement, plus what is left of the pass in progress.
StepsPerPass == Len(g_chunks) * max_attempts + 2

StepsLeft ==
  CASE g_pc = "call" -> 3 * StepsPerPass + 1
    [] g_pc = "chunk" ->
         (3 - Len(g_passes)) * StepsPerPass
           + (Len(g_chunks) - g_idx) * max_attempts + (max_attempts - g_attempt) + 2
    [] g_pc = "judge" -> (3 - Len(g_passes)) * StepsPerPass + 1
    [] OTHER -> 0

\* C8: for every Utterance and every outcome of the remote calls, the passes
\* run are at most one primary pass, then at most one alternate pass with
\* hint, then at most one alternate pass without hint, and every step of
\* the call lowers a bound on the steps left that never goes below zero, so
\* the call returns after a bounded number of steps.
C8_BoundedEscalation ==
  /\ [](BoundedPasses /\ StepsLeft >= 0)
  /\ [][StepsLeft' < StepsLeft]_vars

\* All three passes were run and the call returned.
C8_Witness ==
  /\ Returned
  /\ g_passes = <<"primary", "alt_hint", "alt_nohint">>
  /\ \E r \in g_submitted : r.pass = "alt_nohint"

(***************************************************************************)
(* Claims about the consumer loop (specification SpecMain).                *)
(***************************************************************************)
\* Accepted; discarded for no speech; discarded by the quality gate;
\* discarded for an empty concatenation.
TerminalOutcomes == {"accepted", "no_speech", "failed_gate", "empty_concatenation"}

\* C9 as stated: every dequeued Utterance (an item whose file exists) that
\* the consumer is done with ended as accepted, discarded for no speech,
\* discarded by the quality gate or discarded for an empty concatenation.
C9_AsStated ==
  \A i \in DOMAIN m_processed :
    m_processed[i].existed => m_processed[i].outcome \in TerminalOutcomes

(***************************************************************************)
(* Claims about the speed heuristic (specification SpecSpeed).             *)
(***************************************************************************)
\* words / d > 5.5 with d = ms / 1000, in exact arithmetic.
FasterThanLimit(words, ms) == words * 1000 * 2 > 11 * ms

\* C12: smells_too_long(text, d) is true exactly when the transcript has at
\* least 20 words and word count / d is strictly greater than 5.5, for every
\* duration d > 0 (the 0.1 s floor included); a transcript of fewer than 20
\* words is never flagged.
C12_FlaggedIffManyWordsAndFast ==
  h_pc = "done" =>
    /\ h_result <=> (h_count >= 20 /\ FasterThanLimit(h_count, h_duration))
    /\ h_count < 20 => ~h_result

\* 22 words over 4.0 s are exactly 5.5 words per second: not flagged.
C12_Witness ==
  /\ h_pc = "done"
  /\ h_count = 22
  /\ h_duration = 4000
  /\ ~h_result

\* 25 words over 2 s are flagged, 25 words over 10 s are not, 20 words over
\* 0.05 s (below the floor) are flagged, 19 words over 0.05 s are not.
C12_WitnessFlagged ==
  /\ h_pc = "done"
  /\ \/ h_count = 25 /\ h_duration = 2000 /\ h_result
     \/ h_count = 20 /\ h_duration = 50 /\ h_result

(***************************************************************************)
(* Claims about the prompt-echo heuristic (specification SpecEcho).        *)
(***************************************************************************)
\* a and b have a common run of at least k characters.
ShareRun(a, b, k) ==
  \E len \in k..Len(a) : \E i \in 1..(Len(a) - len + 1) : \E j \in 1..(Len(b) - len + 1) :
     \A d \in 0..(len - 1) : a[i + d] = b[j + d]

\* The longest common run of a and b is shorter than k but at least least.
ShareOnlyShorterRun(a, b, least, k) == ShareRun(a, b, least) /\ ~ShareRun(a, b, k)

\* A normalized text: no capital, no whitespace other than the space, none
\* of the stripped punctuation marks, no blank at either end.
IsNormalized(t) ==
  /\ \A i \in DOMAIN t :
       /\ t[i] \notin DOMAIN LowerOf
       /\ t[i] \notin (Whitespace \ {" "})
       /\ t[i] \notin Punctuation
  /\ t # <<>> => (t[1] # " " /\ t[Len(t)] # " ")

\* C13: contains_prompt_snippet(text, hint) is true exactly when the
\* normalized transcript and the normalized hint (lower-cased, whitespace
\* runs collapsed, punctuation stripped, in that order) have a common run of
\* at least 24 characters; a transcript sharing only shorter runs or
\* scattered words with the hint is not flagged.
C13_FlaggedIffCommonRun ==
  h_pc = "done" =>
    /\ IsNormalized(normalize_text(h_text))
    /\ IsNormalized(normalize_text(h_prompt))
    /\ h_result <=> ShareRun(normalize_text(h_text), normalize_text(h_prompt), 24)
    /\ h_text = TextScattered => ~h_result

\* A transcript in capitals, wrapped in other words, whose normalized form
\* shares exactly 24 characters with the normalized hint, is flagged.
C13_Witness ==
  /\ h_pc = "done"
  /\ h_result
  /\ h_count = 2
  /\ h_text # Upper(h_prompt)
  /\ ~ShareRun(normalize_text(h_text), normalize_text(h_prompt), 25)

\* A transcript sharing a run of 23 characters, and the scattered words,
\* are not flagged.
C13_WitnessShorter ==
  /\ h_pc = "done"
  /\ ~h_result
  /\ \/ ShareOnlyShorterRun(normalize_text(h_text), normalize_text(h_prompt), 23, 24)
     \/ h_text = TextScattered /\ h_prompt = SHORT_PROMPT

(***************************************************************************)
(* Claims about retries in a transcription pass (specification SpecGate).  *)
(***************************************************************************)
\* The loop over the chunks has moved past the chunk in hand.
MovedOn == g_pc' = "judge" \/ g_idx' = g_idx + 1

\* The entry the step appended to the log of the pass.
Logged(entry) == g_chunk_log' = Append(g_chunk_log, entry)

\* One invocation of transcribe_chunk's body for the chunk in hand: it
\* succeeds and the call returns; or it raises before the last attempt and
\* will be invoked again; or it raises at the last attempt and the exception
\* reaches the caller.
C14_Invocation ==
  Transcribing =>
    \/ /\ \E raw \in RemoteTexts :
            Logged(LogEntry(g_idx, IF Strip(raw) = <<>> THEN "empty" ELSE "text",
                            g_attempt, Strip(raw)))
       /\ MovedOn
    \/ /\ g_attempt < max_attempts
       /\ g_attempt' = g_attempt + 1
       /\ g_pc' = "chunk" /\ g_idx' = g_idx
       /\ UNCHANGED <<g_chunk_log, g_transcripts>>
    \/ /\ g_attempt = max_attempts
       /\ Logged(LogEntry(g_idx, "failed", max_attempts, <<>>))
       /\ MovedOn
       /\ UNCHANGED g_transcripts

C14_AttemptsInv ==
  /\ g_pc = "chunk" => g_attempt \in 1..max_attempts
  /\ \A k \in DOMAIN g_chunk_log :
       /\ g_chunk_log[k].invocations <= max_attempts
       /\ g_chunk_log[k].outcome = "failed" => g_chunk_log[k].invocations = max_attempts

\* C14: transcribe_chunk's body is invoked at most max_attempts = 3 times
\* per call; the first invocation that succeeds ends the call with its
\* result and no further invocation; when all 3 invocations raise OpenAIError
\* the third one's exception reaches the caller, which logs the chunk as
\* failed.
C14_AtMostMaxAttempts == [](C14_AttemptsInv) /\ [][C14_Invocation]_vars

\* A pass in which a chunk failed after 3 invocations.
C14_Witness ==
  \E k \in DOMAIN g_chunk_log :
     g_chunk_log[k].outcome = "failed" /\ g_chunk_log[k].invocations = 3

\* A pass in which a chunk succeeded at the second invocation.
C14_WitnessSecond ==
  \E k \in DOMAIN g_chunk_log :
     g_chunk_log[k].outcome = "text" /\ g_chunk_log[k].invocations = 2

RECURSIVE Power(_, _)
Power(b, e) == IF e = 0 THEN 1 ELSE b * Power(b, e - 1)

\* The waits of the call in progress (or of the last call, between calls)
\* are 1 s, 2 s, ...: the k-th is initial_delay * backoff_factor^(k-1); there
\* is one wait per failed attempt that was followed by another attempt, so
\* fewer waits than attempts.
C15_SleepsInv ==
  /\ \A k \in DOMAIN g_sleeps : g_sleeps[k] = initial_delay * Power(backoff_factor, k - 1)
  /\ Len(g_sleeps) <= max_attempts - 1
  /\ (g_pc = "chunk" /\ g_attempt > 1) => Len(g_sleeps) = g_attempt - 1

\* A wait is added only by a step in which an attempt failed and the next
\* attempt is due (the waits of an earlier call are forgotten when a new call
\* makes its first attempt); the step that ends a call, by success or by the
\* final failure, adds none.
C15_SleepStep ==
  /\ g_sleeps' # g_sleeps =>
       \/ g_sleeps' = <<>>
       \/ /\ Transcribing
          /\ g_attempt < max_attempts
          /\ g_attempt' = g_attempt + 1 /\ g_idx' = g_idx /\ g_pc' = "chunk"
          /\ g_sleeps' = Append(IF g_attempt = 1 THEN <<>> ELSE g_sleeps,
                                initial_delay * Power(backoff_factor, g_attempt - 1))
  /\ (Transcribing /\ g_attempt > 1 /\ MovedOn) => g_sleeps' = g_sleeps

\* C15: in a retried call the wait before the k-th retry is
\* initial_delay * backoff_factor^(k-1) seconds (1 s, then 2 s), a wait
\* happens only between a failed attempt and the next attempt, and no wait
\* follows the final failed attempt.
C15_ExponentialBackoff == [](C15_SleepsInv) /\ [][C15_SleepStep]_vars

\* A call that failed three times waited 1 s and 2 s, and not after the
\* third failure.
C15_Witness ==
  /\ g_sleeps = <<1, 2>>
  /\ \E k \in DOMAIN g_chunk_log :
       g_chunk_log[k].outcome = "failed" /\ g_chunk_log[k].chunk = g_idx

(***************************************************************************)
(* Claims about the transcript of a pass (specification SpecPasses).       *)
(***************************************************************************)
\* The texts of the chunks whose transcription succeeded with a non-empty
\* text, in chunk order.
SucceededTexts(log) ==
  LET Succeeded(e) == e.outcome = "text"
      kept == SelectSeq(log, Succeeded)
  IN [k \in DOMAIN kept |-> kept[k].text]

\* The texts with one space between two neighbours.
RECURSIVE SpaceJoined(_)
SpaceJoined(texts) ==
  IF texts = <<>> THEN <<>>
  ELSE IF Len(texts) = 1 THEN texts[1]
  ELSE SpaceJoined(SubSeq(texts, 1, Len(texts) - 1)) \o <<" ">> \o texts[Len(texts)]

\* The chunks before the one in hand have one log entry each, in order.
C16_LogInOrder ==
  /\ g_pc = "chunk" => Len(g_chunk_log) = g_idx - 1
  /\ g_pc = "judge" => Len(g_chunk_log) = Len(g_chunks)
  /\ \A k \in DOMAIN g_chunk_log :
       /\ g_chunk_log[k].chunk = k
       /\ g_chunk_log[k].outcome = "text" => g_chunk_log[k].text # <<>>
       /\ g_chunk_log[k].outcome = "failed" => g_chunk_log[k].invocations = max_attempts

\* C16: when a pass has gone through its chunks, every chunk has been
\* handled exactly once and in order, a failed chunk after exactly
\* max_attempts requests, and the concatenated transcript is the single-space
\* join, in chunk order, of the non-empty texts of the chunks that succeeded.
C16_TranscriptIsOrderedJoin ==
  /\ [](/\ C16_LogInOrder
        /\ g_pc = "judge" => Joined = SpaceJoined(SucceededTexts(g_chunk_log)))
  /\ [][g_passes' = g_passes /\ g_idx # 0 => g_idx' >= g_idx]_vars

\* The first chunk failed, the second was still transcribed, and its text
\* is the transcript of the pass.
C16_Witness ==
  /\ g_pc = "judge"
  /\ Len(g_chunks) = 2
  /\ g_chunk_log[1].outcome = "failed"
  /\ g_chunk_log[2].outcome = "text"
  /\ Joined = g_chunk_log[2].text

\* Two different texts, joined in chunk order, in an alternate-model pass.
C16_WitnessOrder ==
  /\ g_pc = "judge"
  /\ g_pass = "alt_nohint"
  /\ Len(g_chunks) = 2
  /\ g_chunk_log[1].text = Strip(TextPlain)
  /\ g_chunk_log[2].text = TextRepeated
  /\ Joined = Strip(TextPlain) \o <<" ">> \o TextRepeated

(***************************************************************************)
(* Claims about the requests sent to the remote capability.                *)
(***************************************************************************)
\* C17: no chunk shorter than the minimum duration is ever submitted to the
\* remote capability, in the primary pass or in either alternate-model pass.
C17_AsStated == \A q \in g_submitted : q.duration >= min_chunk_ms

\* What holds of the primary pass alone: its requests are for chunks of at
\* least the minimum duration.
C17_PrimaryOnly ==
  \A q \in g_submitted : q.pass = "primary" => q.duration >= min_chunk_ms

\* A chunk under the minimum duration, skipped by the primary pass, has been
\* submitted by an alternate-model pass.
C17_WitnessAltSubmitsTiny ==
  \E q \in g_submitted :
    /\ q.pass # "primary"
    /\ q.duration < min_chunk_ms
    /\ \E k \in DOMAIN g_chunks : g_chunks[k] < min_chunk_ms

(***************************************************************************)
(* transcribe_chunk building the request for one chunk.  The hint texts    *)
(* are configuration: prompt.txt may be missing (DISPATCH_PROMPT is None)  *)
(* and promptbasic.txt may be missing (BASIC_PROMPT is "").                *)
(***************************************************************************)
ChunkModels == {PRIMARY_MODEL, ALTERNATE_MODEL}

ChunkRequestDurations == {0, 250, 1000, 1999, 2000, 2001, 5000, 30000}

PromptConfigs == [dispatch : BOOLEAN, basic : BOOLEAN]

\* The text bound to the hint of that name; <<>> stands for None and "".
ConfiguredPrompt(config, name) ==
  CASE name = "dispatch" -> IF config.dispatch THEN DISPATCH_PROMPT ELSE <<>>
    [] name = "basic" -> IF config.basic THEN BASIC_PROMPT ELSE <<>>
    [] name = "short" -> SHORT_PROMPT
    [] name = "none" -> <<>>

ChunkStart ==
  /\ c_pc = "call"
  /\ c_config \in PromptConfigs
  /\ c_model \in ChunkModels
  /\ c_use_prompt \in BOOLEAN
  /\ c_duration \in ChunkRequestDurations
  /\ c_kwargs = NoKwargs

\* kwargs = {"model": model, ...}; if prompt_to_use: kwargs["prompt"] = ...
ChunkRequest ==
  /\ UNCHANGED notChunkVars
  /\ c_pc = "call"
  /\ LET prompt_to_use ==
           ConfiguredPrompt(c_config, PromptToUse(c_model, c_use_prompt, c_duration))
     IN c_kwargs' = [model |-> c_model,
                     has_prompt |-> prompt_to_use # <<>>,
                     prompt |-> prompt_to_use]
  /\ c_pc' = "sent"
  /\ UNCHANGED <<c_config, c_model, c_use_prompt, c_duration>>

ChunkNext == ChunkRequest

ChunkInit == NotifyIdle /\ DeliverIdle /\ WatchIdle /\ ChunkStart /\ SegIdle /\ HallIdle /\ GateIdle /\ MainIdle /\ HeurIdle

SpecChunk == ChunkInit /\ [][ChunkNext]_vars

(***************************************************************************)
(* Claims about the hint of a request (specification SpecChunk).           *)
(***************************************************************************)
\* The full domain hint configured for the model; <<>> when its file is
\* missing.
FullHintOf(model, config) ==
  IF model = ALTERNATE_MODEL
    THEN (IF config.basic THEN BASIC_PROMPT ELSE <<>>)
    ELSE (IF config.dispatch THEN DISPATCH_PROMPT ELSE <<>>)

\* C18: when a hint is requested, the request carries the short hint if and
\* only if the chunk is shorter than 2.0 s, and for a chunk of 2.0 s or more
\* it carries the full domain hint configured for the model in use (the
\* dispatch hint for the primary model, the basic hint for the alternate
\* one; nothing when that hint's file is missing); when no hint is
\* requested the request carries no hint at any duration.
C18_HintByDurationAndModel ==
  c_pc = "sent" =>
    /\ c_kwargs.model = c_model
    /\ c_kwargs.has_prompt <=> c_kwargs.prompt # <<>>
    /\ c_use_prompt =>
         /\ c_kwargs.prompt = SHORT_PROMPT <=> c_duration < 2000
         /\ c_duration >= 2000 => c_kwargs.prompt = FullHintOf(c_model, c_config)
    /\ ~c_use_prompt => ~c_kwargs.has_prompt

\* A chunk of exactly 2.0 s for the alternate model, hint requested: the
\* basic hint is sent.
C18_Witness ==
  /\ c_pc = "sent"
  /\ c_use_prompt
  /\ c_duration = 2000
  /\ c_model = ALTERNATE_MODEL
  /\ c_kwargs.has_prompt
  /\ c_kwargs.prompt = BASIC_PROMPT

\* A chunk just under 2.0 s for the primary model: the short hint is sent.
C18_WitnessShort ==
  /\ c_pc = "sent"
  /\ c_use_prompt
  /\ c_duration = 1999
  /\ c_model = PRIMARY_MODEL
  /\ c_kwargs.prompt = SHORT_PROMPT

\* A long chunk, no hint requested: no hint in the request.
C18_WitnessNoHint ==
  /\ c_pc = "sent"
  /\ ~c_use_prompt
  /\ c_duration = 30000
  /\ ~c_kwargs.has_prompt

\* prompt.txt is missing: a long chunk for the primary model goes without a
\* hint although one was requested.
C18_WitnessUnconfigured ==
  /\ c_pc = "sent"
  /\ c_use_prompt
  /\ c_duration >= 2000
  /\ c_model = PRIMARY_MODEL
  /\ ~c_config.dispatch
  /\ ~c_kwargs.has_prompt

(***************************************************************************)
(* Claims about an Utterance without chunks (specification SpecGate).      *)
(***************************************************************************)
\* C19: when the chunk splitter returns no chunk for an Utterance, no pass
\* is started and no request is sent to the remote capability, with either
\* model, and transcribe_full_segment returns None: the Utterance is
\* discarded.
C19_NoChunksNoRequest ==
  Len(g_chunks) = 0 =>
    /\ g_submitted = {}
    /\ g_passes = <<>>
    /\ g_pc \in {"call", "done"}
    /\ g_pc = "done" => g_return = ReturnNone

\* An Utterance of 4 s in which the splitter found nothing has been
\* discarded.
C19_Witness ==
  /\ Len(g_chunks) = 0
  /\ g_duration = 4000
  /\ g_pc = "done"
  /\ g_return = ReturnNone
  /\ g_submitted = {}

(***************************************************************************)
(* Claims about the order of Utterances (specification SpecMain).          *)
(***************************************************************************)
\* The queue items are taken in the order they were put, each once: the
\* items the consumer is done with, the one in hand and the ones waiting
\* are the enqueued ones in order.
C20_QueueOrder ==
  LET taken == Len(enqueued) - Len(segment_queue) IN
    /\ Len(m_processed) <= taken
    /\ taken <= Len(m_processed) + 1
    /\ \A i \in DOMAIN m_processed : m_processed[i].path = enqueued[i].path
    /\ \A j \in DOMAIN segment_queue : segment_queue[j] = enqueued[taken + j].path
    /\ taken = Len(m_processed) + 1 => m_segment_path = enqueued[taken].path

\* C20 as stated: Utterances are enqueued in the order they are finalized
\* and the consumer dequeues and processes them in that order; every
\* enqueued path is dequeued exactly once, none is skipped and none is
\* processed twice: the i-th item the consumer is done with is the i-th
\* Utterance, with its own audio, under a path handled once.
C20_AsStated ==
  /\ C20_QueueOrder
  /\ \A i \in DOMAIN m_processed :
       /\ m_processed[i].existed
       /\ m_processed[i].frames = enqueued[i].frames
  /\ \A i, j \in DOMAIN m_processed :
       i # j => m_processed[i].path # m_processed[j].path

\* Two Utterances finalized within one second share a path: the consumer
\* has handled that path twice, both times with the audio of the later one.
C20_WitnessOverwritten ==
  \E i, j \in DOMAIN m_processed :
    /\ i < j
    /\ m_processed[i].path = m_processed[j].path
    /\ m_processed[i].existed /\ m_processed[j].existed
    /\ m_processed[i].frames = enqueued[j].frames
    /\ m_processed[j].frames = enqueued[j].frames
    /\ enqueued[i].frames # enqueued[j].frames

(***************************************************************************)
(* The watchdog thread (src/main.py, lines 64-126) and the pairs of        *)
(* capture process and producer thread it starts and stops.  Time is       *)
(* time.monotonic() in whole seconds.                                      *)
(***************************************************************************)
\* time.sleep(5)
PollInterval == 5
\* AUDIO_STALL_SECONDS is configuration; the model takes 7 seconds.
AUDIO_STALL_SECONDS == 7

\* start_pipeline(): start_ffmpeg_stream(), AudioRecorder(...) (whose
\* __init__ sets _last_read_time = time.monotonic()), recorder.start().
NewPair(now) == [proc |-> "running", stop |-> FALSE, pc |-> "loop", last_read |-> now]

\* recorder.last_read_age() > AUDIO_STALL_SECONDS
StallDetectedInclusive(age, limit) == age >= limit

StallDetected(age, limit) == age > limit

\* The producers started and not yet stopped.
LiveProducers == {i \in DOMAIN w_pairs : w_pairs[i].pc # "ended" /\ ~w_pairs[i].stop}

WatchStart ==
  /\ w_pairs = <<NewPair(0)>>
  /\ w_current = 1
  /\ w_ffmpeg = 1
  /\ w_seen = <<>>
  /\ w_pc = "sleep"
  /\ w_wake = PollInterval
  /\ w_now = 0
  /\ w_puts = {}
  /\ w_last_poll = NoPoll

\* A second passes.
WatchTick ==
  /\ UNCHANGED notWatchVars
  /\ w_pc # "exited"
  /\ w_now < MaxWatchTime
  /\ w_now' = w_now + 1
  /\ UNCHANGED <<w_pairs, w_current, w_ffmpeg, w_seen, w_pc, w_wake, w_puts, w_last_poll>>

\* The producer thread of pair i tests its stop flag (audio.py lines 61, 94).
PairLoopTest(i) ==
  /\ UNCHANGED notWatchVars
  /\ w_pc # "exited"
  /\ i \in DOMAIN w_pairs
  /\ w_pairs[i].pc = "loop"
  /\ w_pairs' = [w_pairs EXCEPT ![i].pc = IF w_pairs[i].stop THEN "ended" ELSE "reading"]
  /\ UNCHANGED <<w_current, w_ffmpeg, w_seen, w_pc, w_wake, w_now, w_puts, w_last_poll>>

\* Its read returns a frame (audio.py lines 96, 106-107: _last_read_time is
\* set); with that frame an Utterance may be complete, written and put on the
\* queue (lines 62-68).
PairReadData(i, finalizes) ==
  /\ UNCHANGED notWatchVars
  /\ w_pc # "exited"
  /\ i \in DOMAIN w_pairs
  /\ w_pairs[i].pc = "reading"
  /\ w_pairs[i].proc = "running"
  /\ w_pairs' = [w_pairs EXCEPT ![i].pc = "loop", ![i].last_read = w_now]
  /\ w_puts' = IF finalizes
                 THEN w_puts \cup {[producer |-> i, live |-> LiveProducers]}
                 ELSE w_puts
  /\ UNCHANGED <<w_current, w_ffmpeg, w_seen, w_pc, w_wake, w_now, w_last_poll>>

\* Its read returns b"" because the capture process is gone: lines 97-99
\* return None and run() calls _record_one_segment again.
PairReadEnd(i) ==
  /\ UNCHANGED notWatchVars
  /\ w_pc # "exited"
  /\ i \in DOMAIN w_pairs
  /\ w_pairs[i].pc = "reading"
  /\ w_pairs[i].proc # "running"
  /\ w_pairs' = [w_pairs EXCEPT ![i].pc = "loop"]
  /\ UNCHANGED <<w_current, w_ffmpeg, w_seen, w_pc, w_wake, w_now, w_puts, w_last_poll>>

\* The capture process of pair i exits by itself.
ProcExits(i) ==
  /\ UNCHANGED notWatchVars
  /\ w_pc # "exited"
  /\ i \in DOMAIN w_pairs
  /\ w_pairs[i].proc = "running"
  /\ w_pairs' = [w_pairs EXCEPT ![i].proc = "exited"]
  /\ UNCHANGED <<w_current, w_ffmpeg, w_seen, w_pc, w_wake, w_now, w_puts, w_last_poll>>

\* monitor_pipeline, lines 103-124: what the poll reads.
PollExited == w_pairs[w_ffmpeg].proc # "running"

PollAge == w_now - w_pairs[w_current].last_read

PollRestarts == PollExited \/ StallDetected(PollAge, AUDIO_STALL_SECONDS)

PollRecord(started) ==
  [at |-> w_now, exited |-> PollExited, age |-> PollAge,
   restart |-> PollRestarts, started |-> started]

\* A poll that finds the process alive and bytes read within the timeout.
WatchPollQuiet ==
  /\ UNCHANGED notWatchVars
  /\ w_pc = "sleep"
  /\ w_now >= w_wake
  /\ ~PollRestarts
  /\ w_wake' = w_now + PollInterval
  /\ w_last_poll' = PollRecord(FALSE)
  /\ UNCHANGED <<w_pairs, w_current, w_ffmpeg, w_seen, w_pc, w_now, w_puts>>

\* restart_pipeline, lines 94-95: start_pipeline() gives a new pair.
WatchPollRestart ==
  /\ UNCHANGED notWatchVars
  /\ w_pc = "sleep"
  /\ w_now >= w_wake
  /\ PollRestarts
  /\ Len(w_pairs) < MaxPairs
  /\ w_pairs' = Append(w_pairs, NewPair(w_now))
  /\ w_pc' = "terminate"
  /\ w_last_poll' = PollRecord(TRUE)
  /\ UNCHANGED <<w_current, w_ffmpeg, w_seen, w_wake, w_now, w_puts>>

\* restart_pipeline, lines 94-100: start_pipeline() returns (None, None);
\* "Failed to restart FFmpeg pipeline; keeping existing process."
WatchPollRestartFails ==
  /\ UNCHANGED notWatchVars
  /\ w_pc = "sleep"
  /\ w_now >= w_wake
  /\ PollRestarts
  /\ w_wake' = w_now + PollInterval
  /\ w_last_poll' = PollRecord(FALSE)
  /\ UNCHANGED <<w_pairs, w_current, w_ffmpeg, w_seen, w_pc, w_now, w_puts>>

\* stop_pipeline, lines 81-87: ffmpeg_proc.terminate() and the wait.
WatchTerminateOld ==
  /\ UNCHANGED notWatchVars
  /\ w_pc = "terminate"
  /\ w_pairs' = [w_pairs EXCEPT ![w_current].proc =
                   IF @ = "running" THEN "terminated" ELSE @]
  /\ w_pc' = "stop"
  /\ UNCHANGED <<w_current, w_ffmpeg, w_seen, w_wake, w_now, w_puts, w_last_poll>>

\* stop_pipeline, lines 88-89: recorder.stop(); then lines 109-110 make the
\* new pair the current one, and monitor_pipeline sleeps again.  One step:
\* state_lock is held throughout.
WatchStopOld ==
  /\ UNCHANGED notWatchVars
  /\ w_pc = "stop"
  /\ w_ffmpeg = w_current
  /\ w_pairs' = [w_pairs EXCEPT ![w_current].stop = TRUE]
  /\ w_current' = Len(w_pairs)
  /\ w_ffmpeg' = Len(w_pairs)
  /\ w_pc' = "sleep"
  /\ w_wake' = w_now + PollInterval
  /\ UNCHANGED <<w_seen, w_now, w_puts, w_last_poll>>

\* The same statement by statement.  stop_pipeline, lines 88-89:
\* recorder.stop(); then line 109: state["ffmpeg"] = new_ffmpeg.
WatchStopRecorder ==
  /\ UNCHANGED notWatchVars
  /\ w_pc = "stop"
  /\ w_ffmpeg = w_current
  /\ w_pairs' = [w_pairs EXCEPT ![w_current].stop = TRUE]
  /\ w_ffmpeg' = Len(w_pairs)
  /\ UNCHANGED <<w_current, w_seen, w_pc, w_wake, w_now, w_puts, w_last_poll>>

\* Line 110: state["recorder"] = new_recorder; the lock is released and
\* monitor_pipeline sleeps again.
WatchAssignRecorder ==
  /\ UNCHANGED notWatchVars
  /\ w_pc = "stop"
  /\ w_ffmpeg # w_current
  /\ w_current' = w_ffmpeg
  /\ w_pc' = "sleep"
  /\ w_wake' = w_now + PollInterval
  /\ UNCHANGED <<w_pairs, w_ffmpeg, w_seen, w_now, w_puts, w_last_poll>>

\* state_lock is free: restart_pipeline holds it from its first line to its
\* last, monitor_pipeline only while it reads state.
LockFreeAlways(pc) == TRUE

LockFree(pc) == pc = "sleep"

\* Lines 225-242: KeyboardInterrupt in the main thread, which reads the
\* current pair under state_lock, stops that recorder, terminates that
\* process and leaves the loop; the threads are daemons and end with it.
WatchInterrupt ==
  /\ UNCHANGED notWatchVars
  /\ w_pc # "exited"
  /\ LockFree(w_pc)
  /\ w_seen' = <<w_ffmpeg, w_current>>
  /\ w_pairs' = [i \in DOMAIN w_pairs |->
                  [w_pairs[i] EXCEPT
                     !.stop = IF i = w_current THEN TRUE ELSE @,
                     !.proc = IF i = w_ffmpeg /\ @ = "running" THEN "terminated" ELSE @]]
  /\ w_pc' = "exited"
  /\ UNCHANGED <<w_current, w_ffmpeg, w_wake, w_now, w_puts, w_last_poll>>


WatchNext ==
  \/ WatchTick
  \/ \E i \in 1..MaxPairs : PairLoopTest(i)
  \/ \E i \in 1..MaxPairs : \E finalizes \in BOOLEAN : PairReadData(i, finalizes)
  \/ \E i \in 1..MaxPairs : PairReadEnd(i)
  \/ \E i \in 1..MaxPairs : ProcExits(i)
  \/ WatchPollQuiet
  \/ WatchPollRestart
  \/ WatchPollRestartFails
  \/ WatchTerminateOld
  \/ WatchStopOld

WatchInit ==
  WatchStart /\ SegIdle /\ HallIdle /\ GateIdle /\ MainIdle /\ HeurIdle /\ ChunkIdle
  /\ DeliverIdle /\ NotifyIdle

SpecWatch == WatchInit /\ [][WatchNext]_vars

\* The watchdog at its first poll, five seconds after the start, with the
\* main thread interrupted at any moment.  The clock stands still: the one
\* poll and the restart it may call are followed step by step.
RestartStart ==
  /\ w_pairs = <<NewPair(0)>>
  /\ w_current = 1
  /\ w_ffmpeg = 1
  /\ w_seen = <<>>
  /\ w_pc = "sleep"
  /\ w_wake = PollInterval
  /\ w_now = PollInterval
  /\ w_puts = {}
  /\ w_last_poll = NoPoll

RestartNext ==
  \/ \E i \in 1..MaxPairs : PairLoopTest(i)
  \/ \E i \in 1..MaxPairs : \E finalizes \in BOOLEAN : PairReadData(i, finalizes)
  \/ \E i \in 1..MaxPairs : PairReadEnd(i)
  \/ \E i \in 1..MaxPairs : ProcExits(i)
  \/ WatchPollQuiet
  \/ WatchPollRestart
  \/ WatchPollRestartFails
  \/ WatchTerminateOld
  \/ WatchStopRecorder
  \/ WatchAssignRecorder
  \/ WatchInterrupt

RestartInit ==
  RestartStart /\ SegIdle /\ HallIdle /\ GateIdle /\ MainIdle /\ HeurIdle /\ ChunkIdle
  /\ DeliverIdle /\ NotifyIdle

SpecRestart == RestartInit /\ [][RestartNext]_vars

(***************************************************************************)
(* Claims about the watchdog (specification SpecWatch).                    *)
(***************************************************************************)
\* C21 as stated: at every moment, also while the watchdog restarts the
\* pipeline, at most one producer thread is started and not yet stopped.
C21_AsStated == Cardinality(LiveProducers) <= 1

\* During a restart the old producer has put an Utterance on the queue
\* while the new one was already started.
C21_WitnessOldPutsBesideNew ==
  \E e \in w_puts : \E j \in e.live : e.producer < j

C23_AsStated ==
  /\ \A i, j \in DOMAIN enqueued : i # j => enqueued[i].path # enqueued[j].path
  /\ \A i \in DOMAIN enqueued :
       files[enqueued[i].path] \in {NoFile, enqueued[i].frames}

\* Two Utterances of one second: the file under their common path holds the
\* second one while the path of the first is still in the queue.
C23_WitnessOverwritten ==
  /\ Len(enqueued) = 2
  /\ Len(segment_queue) = 2
  /\ enqueued[1].path = enqueued[2].path
  /\ enqueued[1].frames # enqueued[2].frames
  /\ files[enqueued[1].path] = enqueued[2].frames

\* C24 as stated: whenever the consumer moves on to the next queue item, the
\* temporary file of the item it leaves has been deleted or moved to its
\* final name, on every path, the one through "except Exception" included.
C24_AsStated ==
  \A i \in DOMAIN m_processed :
    m_processed[i].existed => m_processed[i].frames = NoFile

\* The consumer is back at the queue after an exception and the temporary
\* file of the item is still in the recordings directory.
C24_WitnessLeftBehind ==
  /\ m_pc = "get"
  /\ m_processed # <<>>
  /\ m_processed[Len(m_processed)].outcome = "exception"
  /\ files[m_processed[Len(m_processed)].path] # NoFile

(***************************************************************************)
(* The producer thread and the consumer loop side by side, stopped by      *)
(* KeyboardInterrupt in the main thread (src/main.py, lines 225-242).      *)
(***************************************************************************)
\* The wall clock stays where it is: the names of the files play no part.
StopNext ==
  \/ RecRunLoop
  \/ RecLoopTest
  \/ RecReadEnd
  \/ RecReadError
  \/ \E r \in RmsValues : RecReadFrame(r)
  \/ \E ok \in BOOLEAN : RecEmit(ok)
  \/ MainGet
  \/ MainTranscribe
  \/ MainKeyboardInterrupt

StopInit ==
  SegStart /\ MainStart /\ HallIdle /\ GateIdle /\ HeurIdle /\ ChunkIdle /\ WatchIdle
  /\ DeliverIdle /\ NotifyIdle

SpecStop == StopInit /\ [][StopNext]_vars

(***************************************************************************)
(* Claims about stopping (specification SpecStop).                         *)
(***************************************************************************)
\* C25: once the stop signal is raised (KeyboardInterrupt in the main
\* thread, whose handler sets the producer's stop flag), the producer starts
\* no further frame read (a read already in progress may return), the
\* consumer takes nothing more from the queue, and a loop that has seen the
\* stop only winds down: the producer goes from its inner loop to run() and
\* from there to its end, the consumer stays out of its loop.
C25_StopsBeforeNextReadAndPop ==
  /\ [](stop_event => m_pc = "exited")
  /\ [][stop_event /\ rec_pc # "reading" => rec_pc' # "reading"]_vars
  /\ [][stop_event /\ rec_pc = "loop" => rec_pc' \in {"loop", "run"}]_vars
  /\ [][stop_event /\ rec_pc = "run" => rec_pc' \in {"run", "stopped"}]_vars
  /\ [][rec_pc = "stopped" => rec_pc' = "stopped" /\ stream' = stream]_vars
  /\ [][stop_event =>
          /\ m_pc' = "exited"
          /\ m_processed' = m_processed
          /\ m_segment_path' = m_segment_path
          /\ Len(segment_queue') >= Len(segment_queue)]_vars

\* Both loops have stopped, with an Utterance still waiting in the queue and
\* the stream not at its end.
C25_Witness ==
  /\ stop_event
  /\ rec_pc = "stopped"
  /\ m_pc = "exited"
  /\ segment_queue # <<>>
  /\ ~stream_ended
  /\ stream # <<>>

\* The stop came while a read was in progress: that read returned a frame
\* and the producer stopped without another one.
C25_WitnessReadInProgress ==
  /\ stop_event
  /\ rec_pc = "stopped"
  /\ recording
  /\ active_buffer # <<>>
  /\ active_buffer[Len(active_buffer)].pos = Len(stream)

(***************************************************************************)
(* Claims about the watchdog's polls (specification SpecWatch).            *)
(***************************************************************************)
\* A step in which the watchdog polls.
PollStep == w_last_poll' # w_last_poll

\* The current producer has read nothing for longer than the stall timeout,
\* or the current capture process has exited.
StalledOrExited ==
  \/ w_pairs[w_current].proc # "running"
  \/ w_now - w_pairs[w_current].last_read > AUDIO_STALL_SECONDS

\* The poll has started a new pair, which is not yet the current one.
StartsNewPair ==
  /\ Len(w_pairs') = Len(w_pairs) + 1
  /\ w_pairs'[Len(w_pairs')] = NewPair(w_now)
  /\ SubSeq(w_pairs', 1, Len(w_pairs)) = w_pairs
  /\ w_pc' = "terminate"

\* The poll has changed nothing but the time of the next one.
KeepsPair ==
  /\ w_pairs' = w_pairs
  /\ w_current' = w_current
  /\ w_pc' = "sleep"
  /\ w_wake' = w_now + PollInterval

\* C26 as stated: whenever the current producer is stalled or the capture
\* process has exited, the next poll starts a new pair (and goes on to stop
\* the old one and to make the new one current).
C26_AsStated == [][PollStep /\ StalledOrExited => StartsNewPair]_vars

\* C26, amended: a poll that finds the current producer stalled or the
\* capture process exited tries to start a new pair; when that start
\* succeeds the watchdog stops the old pair (process terminated, stop flag
\* set) and makes the new pair the current one, when it fails the old pair
\* stays current and the poll is repeated after the interval.  A poll that
\* finds the process alive and bytes read within the timeout changes nothing.
C26_RestartsUnlessStartFails ==
  /\ [][PollStep /\ StalledOrExited => StartsNewPair \/ KeepsPair]_vars
  /\ [][PollStep /\ ~StalledOrExited => KeepsPair]_vars
  /\ [][w_pc = "terminate" =>
          \/ UNCHANGED <<w_pc, w_current>>
          \/ /\ w_pc' = "stop"
             /\ w_pairs'[w_current].proc # "running"
             /\ w_current' = w_current]_vars
  /\ [][w_pc = "stop" =>
          \/ UNCHANGED <<w_pc, w_current>>
          \/ /\ w_pc' = "sleep"
             /\ w_pairs'[w_current].stop
             /\ w_pairs'[w_current].proc # "running"
             /\ w_current' = Len(w_pairs)
             /\ w_current' # w_current]_vars
  /\ [][w_pairs' # w_pairs /\ Len(w_pairs') > Len(w_pairs) => PollStep]_vars
  /\ [](w_pc = "sleep" =>
          /\ w_current = Len(w_pairs)
          /\ \A i \in 1..(w_current - 1) :
               w_pairs[i].stop /\ w_pairs[i].proc # "running")

\* A stall (process alive, last read 8 s before the poll) has been answered
\* by a completed restart.
C26_Witness ==
  /\ w_last_poll.restart
  /\ ~w_last_poll.exited
  /\ w_last_poll.age = AUDIO_STALL_SECONDS + 1
  /\ w_last_poll.started
  /\ w_pc = "sleep"
  /\ w_current = 2
  /\ w_pairs[1].stop

\* A poll at an age of exactly the timeout restarted nothing.
C26_WitnessAtTimeout ==
  /\ w_last_poll.at >= 0
  /\ ~w_last_poll.exited
  /\ w_last_poll.age = AUDIO_STALL_SECONDS
  /\ ~w_last_poll.restart
  /\ Len(w_pairs) = 1

\* A restart whose start failed: the old pair is still the current one.
C26_WitnessStartFailed ==
  /\ w_last_poll.restart
  /\ ~w_last_poll.started
  /\ w_pc = "sleep"
  /\ w_current = 1
  /\ ~w_pairs[1].stop

(***************************************************************************)
(* Claims about failed reads (specification SpecSeg).                      *)
(***************************************************************************)

\* The stream positions of a sequence of frames.
FramePositions(frames) == {frames[k].pos : k \in DOMAIN frames}

\* The stream positions of every frame an Utterance was finalized, written
\* or enqueued with.
EmittedPositions ==
  UNION ( {FramePositions(finalized[k]) : k \in DOMAIN finalized}
          \cup {FramePositions(enqueued[k].frames) : k \in DOMAIN enqueued}
          \cup {FramePositions(files[p]) : p \in DOMAIN files} )

\* C27: a read of fewer bytes than a full frame is treated as the end of the
\* stream: the short data is never classified, never kept in the look-back
\* buffer and never appended to an Utterance.  (Violated: "if not data" only
\* catches the empty read.)
C27_AsStated ==
  \A p \in short_frames :
     /\ p \notin FramePositions(lookback_buffer)
     /\ p \notin FramePositions(active_buffer)
     /\ p \notin EmittedPositions

\* An enqueued Utterance ends with the short read.
C27_WitnessShortEnqueued ==
  /\ enqueued # <<>>
  /\ LET fr == enqueued[Len(enqueued)].frames IN fr[Len(fr)].pos \in short_frames

\* C28: the frames of an Utterance in progress when a read error or the end
\* of the stream comes are discarded: no Utterance finalized, written to a
\* file or enqueued contains any of them.  (Violated when the end of the
\* stream is a short read, which is appended to the Utterance: see C27.)
C28_AsStated == discarded \cap EmittedPositions = {}

\* An Utterance in progress when the short read came has been written and
\* enqueued.
C28_WitnessEmittedAfterShortRead ==
  /\ enqueued # <<>>
  /\ LET e == enqueued[Len(enqueued)] IN
       /\ discarded \cap FramePositions(e.frames) # {}
       /\ e.frames[Len(e.frames)].pos \in short_frames
       /\ files[e.path] = e.frames

\* As long as no read is short, the frames held at a read error or at an
\* empty read are in no Utterance.
C28_DiscardedUnlessShortRead ==
  short_frames = {} => discarded \cap EmittedPositions = {}

\* A read error has discarded frames of an Utterance in progress, and a later
\* Utterance has been enqueued.
C28_Witness ==
  /\ discarded # {}
  /\ short_frames = {}
  /\ enqueued # <<>>
  /\ files[enqueued[Len(enqueued)].path] = enqueued[Len(enqueued)].frames
  /\ \E p \in FramePositions(enqueued[Len(enqueued)].frames) :
        \A q \in discarded : p > q

\* The end of the stream has discarded frames of an Utterance in progress.
C28_WitnessStreamEnd ==
  /\ discarded # {}
  /\ stream_ended
  /\ short_frames = {}
  /\ rec_pc = "run"

\* C29: once _record_one_segment has returned None for a read error or the
\* end of the stream, the run loop is left: the producer is never inside the
\* read loop again.  (Violated: run() only tests the stop flag.)
C29_AsStated == aborts => rec_pc \in {"run", "stopped"}

\* The producer reads the stream again after an empty read ended it, no stop
\* having been asked for.
C29_WitnessReadsEndedStream ==
  /\ stream_ended
  /\ short_frames = {}
  /\ ~stop_event
  /\ rec_pc = "reading"

(***************************************************************************)
(* The consumer loop of main() from the value transcribe_full_segment      *)
(* returned onwards (src/main.py, lines 147-222 and 243-245).              *)
(***************************************************************************)
\* FILTERED_WORDS (filtered_words.txt) and the words ALERT_PATTERNS
\* (alert_patterns.txt) search for: one entry each.
FILTERED_WORDS == { <<"a", "d">> }

ALERT_PATTERNS == { <<"f", "i", "r", "e">> }

\* What transcribe_full_segment may return: None, "", or a text without
\* leading or trailing whitespace: "unit 3", "Fire", "AD", "ad fire",
\* "radio fire".
ReturnValues ==
  { ReturnNone,
    ReturnStr(<<>>),
    ReturnStr(<<"u", "n", "i", "t", " ", "3">>),
    ReturnStr(<<"F", "i", "r", "e">>),
    ReturnStr(<<"A", "D">>),
    ReturnStr(<<"a", "d", " ", "f", "i", "r", "e">>),
    ReturnStr(<<"r", "a", "d", "i", "o", " ", "f", "i", "r", "e">>) }

\* "w in t" of two strings.
Occurs(w, t) ==
  \E i \in 1..(Len(t) - Len(w) + 1) : SubSeq(t, i, i + Len(w) - 1) = w

\* contains_filtered_word: some entry of FILTERED_WORDS is in text.lower().
ContainsFilteredWordNever(text) == FALSE

ContainsFilteredWord(text) == \E w \in FILTERED_WORDS : Occurs(w, Lower(text))

\* filter_transcript: None when a filtered word is found, else text.strip().
filter_transcript(text) ==
  IF ContainsFilteredWord(text) THEN ReturnNone ELSE ReturnStr(Strip(text))

\* matches_alert_pattern: some pattern (compiled with IGNORECASE) is found.
matches_alert_pattern(text) ==
  \E pat \in ALERT_PATTERNS : Occurs(pat, Lower(text))

\* The keywords of the call of insert_transcription at main.py lines 179-186.
InsertCallKeywords ==
  {"timestamp_iso", "wav_filename", "transcript", "notified", "pushover_code",
   "response_code"}

\* The parameters of insert_transcription (db.py lines 34-40).
InsertTranscriptionParams ==
  {"timestamp_iso", "wav_filename", "transcript", "notified", "pushover_code"}

\* segment_path.unlink() inside try/except: pass.
Unlinked(item, unlink_ok) == IF unlink_ok THEN "deleted" ELSE item.file

\* The loop is done with the Utterance in hand: "continue".
Finish(item) ==
  /\ d_done' = Append(d_done, item)
  /\ d_cur' = NewItem(ReturnNone)
  /\ d_pc' = "get"

DeliverStart ==
  /\ d_pc = "get"
  /\ d_cur = NewItem(ReturnNone)
  /\ d_done = <<>>

\* Lines 138-145 have returned t for the next Utterance of the queue.
DeliverReturn(t) ==
  /\ UNCHANGED notDeliverVars
  /\ d_pc = "get"
  /\ Len(d_done) < MaxItems
  /\ d_cur' = NewItem(t)
  /\ d_pc' = "transcript"
  /\ UNCHANGED d_done

\* Lines 147-154: if not transcript: unlink, continue.
DeliverCheckTranscript(unlink_ok) ==
  /\ UNCHANGED notDeliverVars
  /\ d_pc = "transcript"
  /\ IF Falsy(d_cur.transcript)
       THEN Finish([d_cur EXCEPT !.outcome = "no_transcript",
                                 !.file = Unlinked(d_cur, unlink_ok)])
       ELSE /\ d_pc' = "filter"
            /\ UNCHANGED <<d_cur, d_done>>

\* Lines 156-163: filtered = filter_transcript(transcript); if not filtered:
\* unlink, continue.
DeliverFilter(unlink_ok) ==
  /\ UNCHANGED notDeliverVars
  /\ d_pc = "filter"
  /\ LET filtered == filter_transcript(d_cur.transcript.text) IN
       IF Falsy(filtered)
         THEN Finish([d_cur EXCEPT !.outcome = "filtered_out",
                                   !.file = Unlinked(d_cur, unlink_ok)])
         ELSE /\ d_cur' = [d_cur EXCEPT !.filtered = filtered]
              /\ d_pc' = "save"
              /\ UNCHANGED d_done

\* Lines 165-175: shutil.move to the final name (an exception is caught at
\* lines 243-245), then copy_to_raspberry_pi; final_wav_filename = None when
\* the copy fails.
DeliverSave(move_ok, copy_ok) ==
  /\ UNCHANGED notDeliverVars
  /\ d_pc = "save"
  /\ IF move_ok
       THEN /\ d_cur' = [d_cur EXCEPT !.file = "final", !.copied = copy_ok,
                                       !.wav_filename = copy_ok]
            /\ d_pc' = "insert"
            /\ UNCHANGED d_done
       ELSE Finish([d_cur EXCEPT !.outcome = "exception"])

\* Lines 177-222: insert_transcription (a call that does not bind, or a
\* database error, raises, and lines 243-245 continue with the next
\* Utterance), post_transcription_with_retry when there is a public file and
\* POST_TRANSCRIPTIONS is on, the Redis publish inside its own try/except,
\* and send_pushover when the filtered text matches an alert pattern.
DeliverInsert(db_ok, post_on, redis_ok, code) ==
  /\ UNCHANGED notDeliverVars
  /\ d_pc = "insert"
  /\ IF CallBinds(InsertCallKeywords, InsertTranscriptionParams) /\ db_ok
       THEN Finish([d_cur EXCEPT
                      !.outcome = "done",
                      !.inserted = TRUE,
                      !.posted = d_cur.wav_filename /\ post_on,
                      !.published = redis_ok,
                      !.notified = matches_alert_pattern(d_cur.filtered.text)
                                   /\ code # 0])
       ELSE Finish([d_cur EXCEPT !.outcome = "exception"])

\* What send_pushover returns: 0 when nothing was sent, else the HTTP status.
PushoverCodes == {0, 200}

DeliverNext ==
  \/ \E t \in ReturnValues : DeliverReturn(t)
  \/ \E unlink_ok \in BOOLEAN : DeliverCheckTranscript(unlink_ok)
  \/ \E unlink_ok \in BOOLEAN : DeliverFilter(unlink_ok)
  \/ \E move_ok, copy_ok \in BOOLEAN : DeliverSave(move_ok, copy_ok)
  \/ \E db_ok, post_on, redis_ok \in BOOLEAN, code \in PushoverCodes :
        DeliverInsert(db_ok, post_on, redis_ok, code)

DeliverInit ==
  DeliverStart /\ SegIdle /\ HallIdle /\ GateIdle /\ MainIdle /\ HeurIdle /\ ChunkIdle
  /\ WatchIdle /\ NotifyIdle

SpecDeliver == DeliverInit /\ [][DeliverNext]_vars

(***************************************************************************)
(* Claims about what reaches the database and the dashboard               *)
(* (specification SpecDeliver).                                            *)
(***************************************************************************)
\* The Utterances the loop has had in hand.
DeliverItems ==
  {d_done[k] : k \in DOMAIN d_done}
    \cup (IF d_pc \in {"get", "idle"} THEN {} ELSE {d_cur})

\* The quality gate accepted the Utterance: it returned a non-empty text.
Accepted(item) == ~item.transcript.isNone /\ Len(item.transcript.text) > 0

\* The text has no filtered word.
PassedFilter(item) ==
  LET t == Lower(item.transcript.text) IN
    \A w \in FILTERED_WORDS :
       \A i \in 1..Len(t), j \in 1..Len(t) : SubSeq(t, i, j) # w

\* Something of the Utterance was kept or sent out.
Delivered(item) ==
  \/ item.inserted \/ item.posted \/ item.published \/ item.notified
  \/ item.file = "final" \/ item.copied

\* C30: a database insert, a post, a publish and a notification (and the
\* recording kept under its final name or copied to the web server) happen
\* only for an Utterance whose transcript the quality gate accepted and the
\* content filter passed; a discarded or rejected Utterance causes none.
C30_OnlyAcceptedAndFiltered ==
  \A item \in DeliverItems :
     /\ Delivered(item) => Accepted(item) /\ PassedFilter(item)
     /\ item.outcome \in {"no_transcript", "filtered_out"} =>
          ~Delivered(item) /\ ~(Accepted(item) /\ PassedFilter(item))

\* The loop is done with a rejected Utterance that matches an alert pattern
\* and with an accepted one whose recording was kept and copied.
C30_Witness ==
  /\ \E k \in DOMAIN d_done :
        /\ d_done[k].outcome = "filtered_out"
        /\ matches_alert_pattern(d_done[k].transcript.text)
        /\ d_done[k].file = "deleted"
  /\ \E k \in DOMAIN d_done :
        /\ Accepted(d_done[k]) /\ PassedFilter(d_done[k])
        /\ d_done[k].file = "final"
        /\ d_done[k].copied

\* An Utterance for which the gate returned None has been dropped.
C30_WitnessNone ==
  \E k \in DOMAIN d_done :
     d_done[k].transcript.isNone /\ d_done[k].outcome = "no_transcript"

\* No Utterance gets as far as a row in the database: the call of
\* insert_transcription passes a keyword the function does not have.
C30_NothingInserted ==
  \A item \in DeliverItems :
     ~item.inserted /\ ~item.posted /\ ~item.published /\ ~item.notified

(***************************************************************************)
(* Claims about the consumer loop surviving failures (specification        *)
(* SpecMain).                                                              *)
(***************************************************************************)
\* C31: an exception raised while one Utterance is processed never ends the
\* consumer loop: the loop is left only by KeyboardInterrupt, after an
\* exception it is back at the queue, and there the next queued Utterance
\* can be taken.
C31_FailureKeepsLoop ==
  /\ m_pc = "exited" => stop_event
  /\ (m_processed # <<>> /\ ~stop_event) => m_pc \in {"get", "transcribe"}
  /\ (m_pc = "get" /\ segment_queue # <<>>) => ENABLED MainGet

\* An Utterance has been taken and processed after the one before it failed
\* with an exception.
C31_Witness ==
  /\ Len(m_processed) >= 2
  /\ m_processed[1].outcome = "exception"
  /\ m_processed[2].existed
  /\ m_processed[2].path # m_processed[1].path
  /\ ~stop_event

(***************************************************************************)
(* Claims about the look-back buffer (specification SpecLookback).         *)
(***************************************************************************)
\* The frames of the look-back buffer that were read from the stream.
LookbackRead == SelectSeq(lookback_buffer, LAMBDA f : f.pos # 0)

\* The look-back buffer holds n frames: silence placeholders in front, then
\* the sub-threshold frames read last, in stream order.
LookbackHoldsLastFrames(n) ==
  /\ Len(lookback_buffer) = n
  /\ \A i \in 1..(n - Len(LookbackRead)) : lookback_buffer[i] = silent_frame
  /\ \A i \in 1..Len(LookbackRead) :
       LET f == LookbackRead[i] IN
         /\ f.pos = Len(stream) - Len(LookbackRead) + i
         /\ f.rms = stream[f.pos]
         /\ AtOrBelow(f.rms)

\* The producer is inside _record_one_segment and not recording.
InLookbackPhase == rec_pc \in {"loop", "reading"} /\ ~recording

\* The thread has ended without a stop and without the stream having ended.
ProducerFailed == rec_pc = "stopped" /\ ~stop_event /\ ~stream_ended

\* C33: while the Segmenter is not recording the look-back buffer holds
\* exactly N frames, the sub-threshold frames read last behind silence
\* placeholders, and pushing a frame never fails, for every look-back
\* duration, 0 ms included.  (Violated: with N = 0 the buffer is empty and
\* lookback_buffer.pop(0) raises IndexError.)
C33_AsStated ==
  /\ InLookbackPhase => LookbackHoldsLastFrames(silence_buffer_chunks)
  /\ ~ProducerFailed

\* With a look-back of 0 ms the first sub-threshold frame has ended the
\* thread.
C33_WitnessZeroLookback ==
  /\ lookback_ms = 0
  /\ silence_buffer_chunks = 0
  /\ ProducerFailed
  /\ Len(stream) = 1

\* With a look-back of at least one frame the claim holds.
C33_PositiveLookback ==
  silence_buffer_chunks > 0 =>
    /\ InLookbackPhase => LookbackHoldsLastFrames(silence_buffer_chunks)
    /\ ~ProducerFailed

\* The oldest frame has been evicted from a look-back of two frames.
C33_WitnessEvicted ==
  /\ silence_buffer_chunks = 2
  /\ InLookbackPhase
  /\ Len(stream) >= 3
  /\ Len(LookbackRead) = 2

(***************************************************************************)
(* Claims about the order of the heuristics (specification SpecOrder).     *)
(***************************************************************************)
\* C34: the primary gate asks the speed check, then the repeated-phrase
\* check, then the prompt-echo check, and acts on the first that flags: a
\* primary transcript that trips the speed or the repeated-phrase check has
\* been escalated to the alternate model, also when it trips prompt-echo on
\* an Utterance shorter than 1.0 s; one that trips prompt-echo alone on such
\* an Utterance has been discarded without escalation.
C34_SpeedRepeatThenEcho ==
  Returned =>
    /\ (g_flags["primary"].speed \/ g_flags["primary"].rep) =>
         (EscalatedWithHint /\ g_passes[2] = "alt_hint")
    /\ ShortEchoOnly => (g_passes = <<"primary">> /\ g_return = ReturnNone)

\* A primary transcript of an Utterance shorter than 1.0 s tripped the
\* repeated-phrase check and prompt-echo, and was escalated.
C34_Witness ==
  /\ Returned
  /\ g_duration < short_clip_ms
  /\ g_flags["primary"].rep
  /\ g_flags["primary"].echo
  /\ ~g_flags["primary"].speed
  /\ EscalatedWithHint

\* The same for the speed check and prompt-echo.
C34_WitnessSpeedAndEcho ==
  /\ Returned
  /\ g_duration < short_clip_ms
  /\ g_flags["primary"].speed
  /\ g_flags["primary"].echo
  /\ EscalatedWithHint

\* Prompt-echo alone on a short Utterance: discarded.
C34_WitnessEchoAlone ==
  /\ Returned
  /\ ShortEchoOnly
  /\ g_return = ReturnNone

(***************************************************************************)
(* The alert branch of the consumer loop (main.py lines 212-222) and       *)
(* send_pushover (notifier.py lines 23-68), with the clock in seconds.     *)
(***************************************************************************)
\* The cooldown of send_pushover and the longest message sent untruncated.
COOLDOWN_SECONDS == 600
MESSAGE_LIMIT == 100

\* The seconds that pass between two calls.
NotifySteps == {300, 599}

\* The status codes of a response of the Pushover API.
StatusCodes == {200, 500}

Pad(n) == [i \in 1..n |-> "x"]

\* Filtered transcripts: without a pattern, short with a pattern, longer than
\* MESSAGE_LIMIT with the pattern at the start, and longer than MESSAGE_LIMIT
\* with the pattern across the limit.
NotifyTexts ==
  { <<"u", "n", "i", "t", " ", "3">>,
    <<"F", "i", "r", "e">>,
    <<"f", "i", "r", "e">> \o Pad(MESSAGE_LIMIT),
    Pad(MESSAGE_LIMIT - 2) \o <<"f", "i", "r", "e">> }

\* Messages of forced calls: one that matches no pattern.
ForcedTexts == { <<"u", "n", "i", "t", " ", "3">> }

\* filtered[:100] + "..." if len(filtered) > 100 else filtered
AlertMessage(filtered) ==
  IF Len(filtered) > MESSAGE_LIMIT
    THEN SubSeq(filtered, 1, MESSAGE_LIMIT) \o <<".", ".", ".">>
    ELSE filtered

\* The cooldown check of lines 46-50: a last notification time is set, the
\* call is not forced, and fewer than COOLDOWN_SECONDS have passed.
InCooldown(last, now, force) ==
  last # <<>> /\ ~force /\ now - last[1] < COOLDOWN_SECONDS

\* Lines 60-61: the response that sets _last_notification_time.
StartsCooldownAlways(status_code) == TRUE

StartsCooldown(status_code) == status_code = 200

\* send_pushover(title, message, force).  alert: the call is the one of the
\* consumer loop; raises: requests.post raises; status_code: the response's
\* status otherwise.  The call is recorded with its return value.
send_pushover(message, force, alert, raises, status_code) ==
  LET skipped == \/ ~n_use
                 \/ ~force /\ ~matches_alert_pattern(message)
                 \/ InCooldown(n_last, n_now, force)
      returned == IF skipped \/ raises THEN 0 ELSE status_code
  IN /\ n_last' = IF ~skipped /\ ~raises /\ StartsCooldown(status_code)
                    THEN <<n_now>> ELSE n_last
     /\ n_calls' = Append(n_calls,
                          [at |-> n_now, force |-> force, alert |-> alert,
                           matched |-> matches_alert_pattern(message),
                           issued |-> ~skipped, returned |-> returned])
     /\ UNCHANGED <<n_use, n_now>>

NotifyStart ==
  /\ n_use \in BOOLEAN
  /\ n_now = 0
  /\ n_last = <<>>
  /\ n_calls = <<>>

\* Time passes between two Utterances.
NotifyAdvance(d) ==
  /\ UNCHANGED notNotifyVars
  /\ n_now + d <= MaxNotifyTime
  /\ n_now' = n_now + d
  /\ UNCHANGED <<n_use, n_last, n_calls>>

\* Lines 212-222 for an accepted transcript whose filtered text is filtered.
NotifyAlert(filtered, raises, status_code) ==
  /\ UNCHANGED notNotifyVars
  /\ Len(n_calls) < MaxCalls
  /\ IF matches_alert_pattern(filtered)
       THEN send_pushover(AlertMessage(filtered), FALSE, TRUE, raises, status_code)
       ELSE UNCHANGED notifyVars

\* send_pushover called with force=True.
NotifyForced(message, raises, status_code) ==
  /\ UNCHANGED notNotifyVars
  /\ Len(n_calls) < MaxCalls
  /\ send_pushover(message, TRUE, FALSE, raises, status_code)

NotifyNext ==
  \/ \E d \in NotifySteps : NotifyAdvance(d)
  \/ \E filtered \in NotifyTexts, raises \in BOOLEAN, status_code \in StatusCodes :
       NotifyAlert(filtered, raises, status_code)
  \/ \E message \in ForcedTexts, raises \in BOOLEAN, status_code \in StatusCodes :
       NotifyForced(message, raises, status_code)

NotifyInit ==
  NotifyStart /\ DeliverIdle /\ SegIdle /\ HallIdle /\ GateIdle /\ MainIdle /\ HeurIdle
  /\ ChunkIdle /\ WatchIdle

SpecNotify == NotifyInit /\ [][NotifyNext]_vars

(***************************************************************************)
(* Claims about notifications (specification SpecNotify).                  *)
(***************************************************************************)
\* A call that got HTTP 200 from Pushover.
Succeeded(c) == c.issued /\ c.returned = 200

\* Some call before call j succeeded fewer than COOLDOWN_SECONDS before it.
RecentSuccess(j) ==
  \E i \in 1..(j - 1) :
    Succeeded(n_calls[i]) /\ n_calls[j].at - n_calls[i].at < COOLDOWN_SECONDS

\* C35: a non-forced call of send_pushover made fewer than 600 seconds after
\* a call that got HTTP 200 issues no request and returns 0; and a
\* non-forced call with Pushover enabled and a matching message is skipped
\* only for that reason, so a failed send or a non-200 response neither
\* starts nor extends the cooldown.
C35_CooldownOnlyAfterSuccess ==
  \A j \in DOMAIN n_calls :
    ~n_calls[j].force =>
      /\ RecentSuccess(j) => ~n_calls[j].issued /\ n_calls[j].returned = 0
      /\ n_use /\ n_calls[j].matched /\ ~RecentSuccess(j) => n_calls[j].issued

\* A success, then a failed forced send 300 s later, then a non-forced call
\* 600 s after the success that is issued; and a non-forced call skipped
\* inside the cooldown.
C35_Witness ==
  /\ Len(n_calls) = 3
  /\ Succeeded(n_calls[1])
  /\ n_calls[2].issued /\ n_calls[2].returned # 200
  /\ n_calls[2].at - n_calls[1].at < COOLDOWN_SECONDS
  /\ ~n_calls[3].force /\ n_calls[3].issued
  /\ n_calls[3].at - n_calls[1].at = COOLDOWN_SECONDS

C35_WitnessSkipped ==
  \E j \in DOMAIN n_calls :
    ~n_calls[j].force /\ n_calls[j].matched /\ RecentSuccess(j) /\ n_calls[j].returned = 0

\* C36: every call made for an accepted transcript that matches an alert
\* pattern, with Pushover enabled and no HTTP 200 in the 600 seconds before
\* it, issues a notification request.
C36_AsStated ==
  \A j \in DOMAIN n_calls :
    n_calls[j].alert /\ n_use /\ ~RecentSuccess(j) => n_calls[j].issued

\* The first call is for a matching transcript with Pushover enabled, and
\* send_pushover returns 0 without a request: the truncated message no
\* longer matches.
C36_WitnessTruncatedUnmatched ==
  /\ Len(n_calls) >= 1 /\ n_use
  /\ n_calls[1].alert /\ ~n_calls[1].matched
  /\ ~n_calls[1].issued /\ n_calls[1].returned = 0

\* Transcripts of at most MESSAGE_LIMIT characters are sent as they are, so
\* the calls whose message still matches are issued as the claim says.
C36_IssuedWhenMessageMatches ==
  \A j \in DOMAIN n_calls :
    n_calls[j].alert /\ n_calls[j].matched /\ n_use /\ ~RecentSuccess(j)
      => n_calls[j].issued

(***************************************************************************)
(* Claims about the transcript the quality gate returns (SpecVerdict).     *)
(***************************************************************************)
\* transcribe_full_segment on one-chunk Utterances with every text of the
\* remote capability: each heuristic is tripped alone by some text.
SpecVerdict == OrderInit /\ [][GateNext]_vars

\* transcribe_full_segment has returned a non-empty transcript.
ReturnedText == g_pc = "done" /\ ~Falsy(g_return)

\* C37: a non-empty transcript returned by transcribe_full_segment trips
\* none of the speed, repeated-phrase and prompt-echo heuristics for the
\* Utterance's duration, and it is the single-space join of the chunk texts
\* of the one pass that ran last, whichever of the three passes that is.
C37_ReturnedUnflaggedFromOnePass ==
  ReturnedText =>
    /\ ~smells_too_long(g_return.text, g_duration)
    /\ ~is_hallucination(g_return.text)
    /\ ~EchoesAPrompt(g_return.text)
    /\ g_pass = g_passes[Len(g_passes)]
    /\ g_return.text = SpaceJoined(SucceededTexts(g_chunk_log))
    /\ \A k \in DOMAIN g_chunk_log :
         g_chunk_log[k].outcome # "skipped" => RequestOf(g_pass, k) \in g_submitted

\* The pass without hint returned its chunk's text after the primary pass
\* and the pass with hint were flagged.
C37_Witness ==
  /\ ReturnedText
  /\ g_passes = <<"primary", "alt_hint", "alt_nohint">>
  /\ Flagged(g_flags["primary"]) /\ Flagged(g_flags["alt_hint"])
  /\ g_return.text = g_chunk_log[Len(g_chunk_log)].text

C37_WitnessPrimary == ReturnedText /\ g_passes = <<"primary">>

C37_WitnessAltHint == ReturnedText /\ g_passes = <<"primary", "alt_hint">>

(***************************************************************************)
(* Claims about a primary pass without any text (SpecPasses).              *)
(***************************************************************************)
\* The primary pass has gone through its chunks and collected no text.
EmptyPrimary == g_pass = "primary" /\ g_pc \in {"judge", "done"} /\ g_transcripts = <<>>

\* The divisions of the heuristics: is_hallucination divides by total_words
\* once per repeated phrase (line 54); smells_too_long divides by
\* max(audio_duration_sec, 0.1) (line 63), which is never 0.
DividesByZero(text) ==
  DOMAIN detect_repeated_phrases(text) # {} /\ Len(Split(text)) = 0

C38_WitnessSkipped ==
  /\ EmptyPrimary /\ g_pc = "done"
  /\ \E k \in DOMAIN g_chunk_log : g_chunk_log[k].outcome = "skipped"

(***************************************************************************)
(* Claims about the producer after stop() (specification SpecSeg).         *)
(***************************************************************************)
\* The Utterances the producer can still enqueue once stop() was called:
\* one while a read is in flight or a finalized Utterance waits for its
\* put, none otherwise.
EnqueuesLeft == IF rec_pc \in {"reading", "emit"} THEN 1 ELSE 0

\* The steps the thread is from its end once no read is in flight.
StepsToExit ==
  IF rec_pc = "stopped" THEN 0
  ELSE IF rec_pc = "run" THEN 1
  ELSE 2

\* What the producer does after stop() with no read in flight.
WindDown ==
  \/ RecRunLoop
  \/ RecLoopTest
  \/ \E ok \in BOOLEAN : RecEmit(ok)

C39_AfterStopStep ==
  stop_event =>
    /\ Len(enqueued') - Len(enqueued) <= EnqueuesLeft - EnqueuesLeft'
    /\ Len(enqueued') > Len(enqueued) =>
         LET fr == active_buffer
             n == silence_buffer_chunks
         IN /\ enqueued' = Append(enqueued, [path |-> TempWavPath(clock), frames |-> fr])
            /\ finalized[Len(finalized)] = fr
            /\ Len(fr) >= n
            /\ \A i \in (Len(fr) - n + 1)..Len(fr) : AtOrBelow(fr[i].rms)
            /\ fr[Len(fr)].pos = Len(stream)
    /\ rec_pc # "reading" /\ rec_pc' # rec_pc => StepsToExit' < StepsToExit
    /\ rec_pc # "reading" => stream' = stream

\* C39: after stop() the producer enqueues at most one more Utterance, and
\* that one is complete: it ends in N sub-threshold frames, the last of
\* which is the frame whose read was in flight.  An Utterance that is only
\* partly accumulated is not enqueued; once no read is in flight the thread
\* reads no more and each of its steps brings it nearer to its end, which it
\* can always take.
C39_AtMostOneCompleteAfterStop ==
  /\ [](stop_event /\ rec_pc \in {"loop", "run", "emit"} => ENABLED WindDown)
  /\ [][C39_AfterStopStep]_vars

\* stop() was called while a read was in flight, that read finalized the
\* Utterance, and its put is next.
C39_Witness ==
  /\ stop_event
  /\ rec_pc = "emit"
  /\ active_buffer[Len(active_buffer)].pos = Len(stream)

\* The thread has ended after stop() with a partly accumulated Utterance
\* that was never enqueued.
C39_WitnessPartialDropped ==
  /\ stop_event
  /\ rec_pc = "stopped"
  /\ recording /\ silence_count < silence_buffer_chunks
  /\ \A k \in DOMAIN enqueued :
       FramePositions(enqueued[k].frames) \cap PartialFrames(active_buffer, TRUE) = {}
  /\ PartialFrames(active_buffer, TRUE) # {}

(***************************************************************************)
(* Claims about restart_pipeline (specification SpecRestart).              *)
(***************************************************************************)
\* A poll that called restart_pipeline, whose start_pipeline() failed.
FailedRestartStep == PollStep /\ w_last_poll'.restart /\ ~w_last_poll'.started

\* The step that ends a successful restart_pipeline.
RestartDoneStep == w_pc = "stop" /\ w_pc' = "sleep"

C40_StateInv ==
  /\ LockFree(w_pc) => w_ffmpeg = w_current
  /\ w_seen # <<>> => w_seen[1] = w_seen[2]
  /\ w_pc \in {"terminate", "stop"} =>
       /\ w_current < Len(w_pairs)
       /\ w_ffmpeg \in {w_current, Len(w_pairs)}

\* C40: a restart whose start fails leaves every pair as it was (none is
\* stopped or terminated) and the current pair current; a restart whose
\* start succeeds ends with the new pair as the current process and the
\* current recorder, and no reader under state_lock ever sees the process
\* of one pair with the recorder of another; the Utterances already put on
\* the queue stay there through every step of the watchdog.
C40_FailedStartKeepsPair ==
  /\ [](C40_StateInv)
  /\ [][FailedRestartStep =>
          /\ w_pairs' = w_pairs
          /\ w_current' = w_current /\ w_ffmpeg' = w_ffmpeg
          /\ w_pc' = "sleep"]_vars
  /\ [][RestartDoneStep =>
          /\ w_current' = Len(w_pairs) /\ w_ffmpeg' = Len(w_pairs)
          /\ w_current' # w_current
          /\ w_pairs'[w_current].stop /\ w_pairs'[w_current].proc # "running"
          /\ ~w_pairs'[w_current'].stop]_vars
  /\ [][w_puts \subseteq w_puts']_vars

\* The main thread, interrupted after a restart, read the new pair, and the
\* Utterance the old producer had put on the queue is still there.
C40_Witness ==
  /\ w_seen = <<2, 2>>
  /\ \E u \in w_puts : u.producer = 1

\* A restart whose start failed: the old pair is current and not stopped,
\* and its process is the one that was found exited.
C40_WitnessStartFailed ==
  /\ w_last_poll.restart /\ w_last_poll.exited /\ ~w_last_poll.started
  /\ w_pc = "sleep"
  /\ w_current = 1 /\ w_ffmpeg = 1
  /\ ~w_pairs[1].stop /\ w_pairs[1].proc = "exited"

=============================================================================
